---------------------------- MODULE Spec2Model ----------------------------
(***************************************************************************)
(* The high-precision fitness worker of LagrangianOptimizer, in its two    *)
(* variants:                                                               *)
(*   "direct": server/genetic-algorithm/high_precision_worker.py           *)
(*   "vev":    server/genetic-algorithm2/high_precision_worker.py          *)
(*                                                                         *)
(* Numbers.  The code computes with Python's decimal.Decimal, a decimal    *)
(* floating-point type: a signed integer coefficient and an exponent, every*)
(* operation rounded half-even to the context precision.  The model keeps  *)
(* that type and its rounding, with a narrower coefficient (32-bit         *)
(* integers): the context precisions 16 / 20 / 30 digits are modelled as   *)
(* 4 / 5 / 6 working digits (WorkDigits).  A Decimal is the record [c, e]  *)
(* of value c * 10^e, kept canonical (no trailing zeros in c, zero is      *)
(* [0, 0]) so that equal values are equal records.                         *)
(***************************************************************************)
EXTENDS Integers, Sequences, FiniteSets

(***************************************************************************)
(* decimal.Decimal arithmetic                                              *)
(***************************************************************************)
Pow10(n) == <<1, 10, 100, 1000, 10000, 100000, 1000000, 10000000,
              100000000, 1000000000>>[n + 1]

NumDigits(n) ==
    IF n < 10 THEN 1 ELSE IF n < 100 THEN 2 ELSE IF n < 1000 THEN 3
    ELSE IF n < 10000 THEN 4 ELSE IF n < 100000 THEN 5
    ELSE IF n < 1000000 THEN 6 ELSE IF n < 10000000 THEN 7
    ELSE IF n < 100000000 THEN 8 ELSE IF n < 1000000000 THEN 9 ELSE 10

AbsInt(n) == IF n < 0 THEN 0 - n ELSE n

RECURSIVE Strip(_, _)
Strip(n, e) ==
    IF n = 0 THEN [c |-> 0, e |-> 0]
    ELSE IF n % 10 = 0 THEN Strip(n \div 10, e + 1)
    ELSE [c |-> n, e |-> e]

\* Decimal('<literal>'): the exact value c * 10^e.
Dec(c, e) ==
    LET m == Strip(AbsInt(c), e)
    IN  [c |-> IF c < 0 THEN 0 - m.c ELSE m.c, e |-> m.e]

\* The magnitude n * 10^e (plus a non-zero discarded tail when sticky)
\* rounded half-even to p digits.  A sticky n has more than p digits.
RoundMag(p, n, e, sticky) ==
    LET d == NumDigits(n)
    IN  IF d <= p THEN Strip(n, e)
        ELSE LET k    == d - p
                 q    == n \div Pow10(k)
                 r    == n % Pow10(k)
                 half == 5 * Pow10(k - 1)
                 up   == \/ r > half
                         \/ r = half /\ (sticky \/ q % 2 = 1)
             IN  Strip(IF up THEN q + 1 ELSE q, e + k)

WithSign(s, m) == [c |-> IF s < 0 THEN 0 - m.c ELSE m.c, e |-> m.e]

Sign(x) == IF x.c > 0 THEN 1 ELSE IF x.c < 0 THEN 0 - 1 ELSE 0

\* Context rounding of a value (unary plus).
Rnd(p, x) == WithSign(Sign(x), RoundMag(p, AbsInt(x.c), x.e, FALSE))

Neg(x) == [c |-> 0 - x.c, e |-> x.e]

Abs(x) == [c |-> AbsInt(x.c), e |-> x.e]

\* Coefficient scaled up to exactly six digits, with its exponent.
Six(x) ==
    LET m == AbsInt(x.c)
        s == 6 - NumDigits(m)
    IN  [c |-> m * Pow10(s), e |-> x.e - s]

\* -1, 0, 1 as a < b, a = b, a > b (Decimal.__lt__ and friends).
Cmp(a, b) ==
    LET sa == Sign(a)
        sb == Sign(b)
        xa == Six(a)
        xb == Six(b)
        mg == IF xa.e # xb.e THEN (IF xa.e > xb.e THEN 1 ELSE 0 - 1)
              ELSE IF xa.c > xb.c THEN 1
              ELSE IF xa.c < xb.c THEN 0 - 1 ELSE 0
    IN  IF sa # sb THEN (IF sa > sb THEN 1 ELSE 0 - 1)
        ELSE IF sa = 0 THEN 0
        ELSE sa * mg

Lt(a, b) == Cmp(a, b) < 0
Le(a, b) == Cmp(a, b) <= 0
Gt(a, b) == Cmp(a, b) > 0
Ge(a, b) == Cmp(a, b) >= 0

Max(a, b) == IF Ge(a, b) THEN a ELSE b
Min(a, b) == IF Le(a, b) THEN a ELSE b

\* Decimal.__add__ under precision p.
Add(p, a, b) ==
    IF a.c = 0 THEN Rnd(p, b)
    ELSE IF b.c = 0 THEN Rnd(p, a)
    ELSE
      LET x     == IF a.e >= b.e THEN a ELSE b
          y     == IF a.e >= b.e THEN b ELSE a
          shift == x.e - y.e
          dx    == NumDigits(AbsInt(x.c))
      IN  IF shift + dx <= 9
          THEN LET n == x.c * Pow10(shift) + y.c
               IN  WithSign(IF n < 0 THEN 0 - 1 ELSE 1,
                            RoundMag(p, AbsInt(n), y.e, FALSE))
          ELSE \* y lies below the ninth digit of x
               LET sx  == 9 - dx
                   X   == AbsInt(x.c) * Pow10(sx)
                   gap == shift - sx
                   Y   == AbsInt(y.c)
                   yq  == IF gap >= 7 THEN 0 ELSE Y \div Pow10(gap)
                   yr  == IF gap >= 7 THEN Y ELSE Y % Pow10(gap)
                   st  == yr # 0
                   n   == IF Sign(x) = Sign(y) THEN X + yq
                          ELSE X - yq - (IF st THEN 1 ELSE 0)
               IN  WithSign(Sign(x), RoundMag(p, n, x.e - sx, st))

Sub(p, a, b) == Add(p, a, Neg(b))

\* Decimal.__mul__ under precision p (operands of at most six digits).
Mul(p, a, b) ==
    LET A   == AbsInt(a.c)
        B   == AbsInt(b.c)
        ah  == A \div 1000
        al  == A % 1000
        bh  == B \div 1000
        bl  == B % 1000
        mid == ah * bl + al * bh
        lo  == (mid % 1000) * 1000 + al * bl
        hi  == ah * bh + mid \div 1000 + lo \div 1000000
        lo2 == lo % 1000000
        d   == NumDigits(hi)
        j   == IF d <= 3 THEN 6 ELSE 9 - d
        T   == hi * Pow10(j) + lo2 \div Pow10(6 - j)
        st  == lo2 % Pow10(6 - j) # 0
    IN  WithSign(Sign(a) * Sign(b),
                 IF hi = 0 THEN RoundMag(p, lo2, a.e + b.e, FALSE)
                 ELSE RoundMag(p, T, a.e + b.e + (6 - j), st))

RECURSIVE LongDiv(_, _, _, _)
LongDiv(q, r, B, k) ==
    IF k = 0 THEN <<q, r>>
    ELSE LongDiv(q * 10 + (r * 10) \div B, (r * 10) % B, B, k - 1)

\* Decimal.__truediv__ under precision p, for b # 0.
Div(p, a, b) ==
    IF a.c = 0 THEN [c |-> 0, e |-> 0]
    ELSE LET xa == Six(a)
             xb == Six(b)
             qr == LongDiv(xa.c \div xb.c, xa.c % xb.c, xb.c, 7)
         IN  WithSign(Sign(a) * Sign(b),
                      RoundMag(p, qr[1], xa.e - xb.e - 7, qr[2] # 0))

RECURSIVE SqrtPairs(_, _, _)
SqrtPairs(root, rem, pairs) ==
    IF pairs = <<>> THEN <<root, rem>>
    ELSE LET cur == rem * 100 + Head(pairs)
             dg  == CHOOSE g \in 0..9 :
                       /\ (20 * root + g) * g <= cur
                       /\ g = 9 \/ (20 * root + g + 1) * (g + 1) > cur
         IN  SqrtPairs(10 * root + dg, cur - (20 * root + dg) * dg, Tail(pairs))

\* Decimal.sqrt under precision p, for a >= 0: seven root digits, then rounded.
Sqrt(p, a) ==
    IF a.c = 0 THEN [c |-> 0, e |-> 0]
    ELSE LET t0 == 7 - NumDigits(a.c)
             t  == IF (a.e - t0) % 2 = 0 THEN t0 ELSE t0 + 1
             M  == a.c * Pow10(t)
             rr == SqrtPairs(0, 0, <<M \div 1000000, (M \div 10000) % 100,
                                     (M \div 100) % 100, M % 100, 0, 0, 0>>)
         IN  RoundMag(p, rr[1], (a.e - t - 6) \div 2, rr[2] # 0)

\* abs(x) and -x round to the context precision.
AbsP(p, x) == Rnd(p, Abs(x))
NegP(p, x) == Rnd(p, Neg(x))

\* 10^(-j/90) for j = 0..89, as six-digit coefficients of 10^-6.
Root90 ==
    << 1000000, 974740, 950119, 926119, 902725, 879923, 857696, 836031, 814913,
       794328, 774264, 754706, 735642, 717060, 698947, 681292, 664083, 647308,
       630957, 615020, 599484, 584341, 569581, 555194, 541170, 527500, 514175,
       501187, 488527, 476187, 464159, 452434, 441006, 429866, 419008, 408424,
       398107, 388051, 378249, 368695, 359381, 350303, 341455, 332830, 324423,
       316228, 308240, 300454, 292864, 285467, 278256, 271227, 264376, 257698,
       251189, 244844, 238659, 232631, 226754, 221027, 215443, 210001, 204697,
       199526, 194486, 189574, 184785, 180117, 175568, 171133, 166810, 162596,
       158489, 154486, 150584, 146780, 143072, 139458, 135936, 132502, 129155,
       125893, 122713, 119613, 116591, 113646, 110776, 107978, 105250, 102591 >>

\* Decimal.__pow__ under precision p, for the powers the schedule takes: a
\* base 10^-k and an exponent y in [0, 1) that is n/90 to working precision.
\* The result is 10^(-k*n/90), rounded.
Pow(p, b, y) ==
    LET q == Mul(6, y, Dec(90, 0))
        n == IF q.e >= 0 THEN q.c * Pow10(q.e)
             ELSE (q.c + 5 * Pow10((0 - q.e) - 1)) \div Pow10(0 - q.e)
        j == (0 - b.e) * n
    IN  Rnd(p, Dec(Root90[(j % 90) + 1], (0 - 6) - (j \div 90)))

(***************************************************************************)
(* Module constants                                                        *)
(***************************************************************************)
DEFAULT_PRECISION == 16

\* The targets are exact at every context precision of the code (9, 16 and 6
\* digits against 16 or more), so they are held to the smallest working
\* precision here; PI (31 digits) exceeds every precision, there and here.
C_TARGET_DEC     == Dec(2998, 5)        \* Decimal('299792458')
ALPHA_TARGET_DEC == Dec(7297, 0 - 6)    \* Decimal('0.007297352566405895')
G_TARGET_DEC     == Dec(6674, 0 - 14)   \* Decimal('6.67430e-11')
PI               == Dec(314159, 0 - 5)  \* Decimal('3.14159265358979...')
EPS_C            == Dec(1, 0 - 6)
EPS_G            == Dec(1, 0 - 4)
N_OPS            == 6

Variants == {"direct", "vev"}

\* The working digits that stand for a context precision.
WorkDigits(prec) == IF prec = 16 THEN 4 ELSE IF prec = 20 THEN 5 ELSE 6

(***************************************************************************)
(* JSON values and Python floats                                           *)
(*                                                                         *)
(* A number of a response is [k, c, e]: a finite value c * 10^e or an      *)
(* infinity.  A binary64 float is held to FloatDigits decimal digits and   *)
(* overflows above 1.797e308 as float() does.                              *)
(***************************************************************************)
FloatDigits == WorkDigits(30)

Fin(d)    == [k |-> "fin", c |-> d.c, e |-> d.e]
Inf(s)    == [k |-> "inf", c |-> s, e |-> 0]
IntNum(n) == Fin(Dec(n, 0))
AsDec(f)  == [c |-> f.c, e |-> f.e]

\* float(d) for a Decimal d.
Float(d) ==
    LET r   == Rnd(FloatDigits, d)
        adj == NumDigits(AbsInt(r.c)) + r.e - 1
    IN  IF r.c # 0 /\ (adj > 308 \/ (adj = 308 /\ Gt(Abs(r), Dec(1797, 305))))
        THEN Inf(Sign(r))
        ELSE IF r.c # 0 /\ adj < 0 - 324 THEN IntNum(0)
        ELSE Fin(r)

\* a + b on floats.
FloatAdd(a, b) ==
    IF a.k = "inf" THEN a
    ELSE IF b.k = "inf" THEN b
    ELSE Float(Add(FloatDigits, AsDec(a), AsDec(b)))

\* A JSON number of a request, and a JSON string.
Num(c, e) == [k |-> "num", c |-> Dec(c, e).c, e |-> Dec(c, e).e]
Str       == [k |-> "str", c |-> 0, e |-> 0]

\* Decimal(str(c)) for a list item c: exact for a number, InvalidOperation
\* for text that is no number.
IsNumeric(item) == item.k = "num"
ToDecimal(item) == [c |-> item.c, e |-> item.e]

(***************************************************************************)
(* set_precision_for_generation                                            *)
(***************************************************************************)
\* Comparing a generation that is no number with 500 raises TypeError.
Comparable(generation) == generation.k = "int"

\* Tiers whose bands start one generation late.
PrecisionTierLate(g) == IF g <= 500 THEN 16 ELSE IF g <= 1000 THEN 20 ELSE 30

\* set_precision_for_generation: the digits it puts in the context.
PrecisionTier(g) == IF g < 500 THEN 16 ELSE IF g < 1000 THEN 20 ELSE 30

(***************************************************************************)
(* The tolerance schedule (same text in both variants)                     *)
(***************************************************************************)
\* A warmup regime that starts at generation 0.
WarmupEndNonNegative(g) == 0 <= g /\ g < 10

\* if generation < 10
WarmupEnd(g) == g < 10

RampEnd(g) == g < 100

\* A ramp that runs backwards: progress falls from 1 to 0.
ProgressReversed(p, g) == Div(p, Dec(100 - g, 0), Dec(90, 0))

\* progress = Decimal(generation - 10) / Decimal(90)
Progress(p, g) == Div(p, Dec(g - 10, 0), Dec(90, 0))

\* A relaxation without its cap.
RelaxedUncapped(p, eps, g) ==
    Mul(p, eps, Add(p, Dec(1, 0), Mul(p, Dec(g - 500, 0), Dec(1, 0 - 4))))

\* min(eps * stagnation_factor, eps * Decimal('2'))
Relaxed(p, eps, g) ==
    Min(Mul(p, eps, Add(p, Dec(1, 0), Mul(p, Dec(g - 500, 0), Dec(1, 0 - 4)))),
        Mul(p, eps, Dec(2, 0)))

EffectiveEps(p, g) ==
    IF WarmupEnd(g)
    THEN [eps_c |-> Dec(1, 0 - 2), eps_g |-> Dec(1, 0 - 1)]
    ELSE IF RampEnd(g)
    THEN [eps_c |-> Mul(p, Dec(1, 0 - 2),
                        Pow(p, Div(p, EPS_C, Dec(1, 0 - 2)), Progress(p, g))),
          eps_g |-> Mul(p, Dec(1, 0 - 1),
                        Pow(p, Div(p, EPS_G, Dec(1, 0 - 1)), Progress(p, g)))]
    ELSE IF g > 500
    THEN [eps_c |-> Relaxed(p, EPS_C, g), eps_g |-> Relaxed(p, EPS_G, g)]
    ELSE [eps_c |-> EPS_C, eps_g |-> EPS_G]

\* The tolerances of generation g, under the context its call sets.
Scheduled(g) == EffectiveEps(WorkDigits(PrecisionTier(g)), g)

\* A gate that rejects only when both tolerances are exceeded.
ViolatesBoth(delta_c, delta_g, eps) ==
    Gt(delta_c, eps.eps_c) /\ Gt(delta_g, eps.eps_g)

\* The hard-constraint gate: reject when either tolerance is exceeded.
Violates(delta_c, delta_g, eps) ==
    Gt(delta_c, eps.eps_c) \/ Gt(delta_g, eps.eps_g)

(***************************************************************************)
(* evaluate_chromosome_high_precision: the body of the try block           *)
(*                                                                         *)
(* An outcome is [out, result, err, tr]: out = "return" with the record    *)
(* returned, or out = "raise" with the exception's name; tr holds the      *)
(* locals the gate read, when the gate was reached.                        *)
(***************************************************************************)
Zero == Dec(0, 0)

KNOCKOUT == Fin(Dec(1, 9))    \* float('1e9')
THOUSAND == Fin(Dec(1, 3))    \* float('1000')

NoTrace ==
    [gate |-> FALSE, delta_c |-> Zero, delta_g |-> Zero, delta_alpha |-> Zero,
     eps_c |-> Zero, eps_g |-> Zero, penalty |-> Zero]

GateTrace(delta_c, delta_g, delta_alpha, eps, penalty) ==
    [gate |-> TRUE, delta_c |-> delta_c, delta_g |-> delta_g,
     delta_alpha |-> delta_alpha, eps_c |-> eps.eps_c, eps_g |-> eps.eps_g,
     penalty |-> penalty]

Return(result, tr) == [out |-> "return", result |-> result, err |-> "", tr |-> tr]

Raise(err) == [out |-> "raise", result |-> <<>>, err |-> err, tr |-> NoTrace]

\* The rejection record of the direct variant.
DirectReject(fitness, coefficients) ==
    [fitness |-> fitness, c_model |-> IntNum(0), alpha_model |-> IntNum(0),
     g_model |-> IntNum(0), delta_c |-> IntNum(1), delta_alpha |-> IntNum(1),
     delta_g |-> IntNum(1), coefficients |-> coefficients]

\* The fitness returned for a c0 of magnitude below 1e-15 (direct variant).
DirectDegenerateC0 == KNOCKOUT

\* The fitness returned for a zero dispersion ratio (direct variant).
DirectZeroRatio == THOUSAND

\* The kappa -> G heuristic of the direct variant: [inf, G_model, delta_G].
DirectGravity(p, grav_coeff) ==
    IF Lt(AbsP(p, grav_coeff), Dec(1, 0 - 30))
    THEN [inf |-> TRUE, G_model |-> Zero, delta_G |-> Dec(1, 0)]
    ELSE IF Lt(Dec(1, 0 - 13), AbsP(p, grav_coeff))
            /\ Lt(AbsP(p, grav_coeff), Dec(1, 0 - 2))
    THEN [inf |-> FALSE, G_model |-> grav_coeff,
          delta_G |-> Div(p, AbsP(p, Sub(p, grav_coeff, G_TARGET_DEC)),
                          G_TARGET_DEC)]
    ELSE LET G_model == Div(p, Dec(1, 0),
                            Mul(p, Mul(p, Dec(16, 0), PI), AbsP(p, grav_coeff)))
         IN  [inf |-> FALSE, G_model |-> G_model,
              delta_G |-> Div(p, AbsP(p, Sub(p, G_model, G_TARGET_DEC)),
                              G_TARGET_DEC)]

\* The structural-magnitude penalty of the direct variant.
StructPenaltySquared(p, c2, c3) ==
    Add(p, Mul(p, Dec(2, 0 - 1),
               Mul(p, Max(Zero, Sub(p, AbsP(p, c2), Dec(5, 0 - 1))),
                      Max(Zero, Sub(p, AbsP(p, c2), Dec(5, 0 - 1))))),
           Mul(p, Dec(1, 0 - 1),
               Mul(p, Max(Zero, Sub(p, AbsP(p, c3), Dec(25, 0 - 2))),
                      Max(Zero, Sub(p, AbsP(p, c3), Dec(25, 0 - 2))))))
StructPenalty(p, c2, c3) ==
    Add(p, Mul(p, Dec(2, 0 - 1), Max(Zero, Sub(p, AbsP(p, c2), Dec(5, 0 - 1)))),
           Mul(p, Dec(1, 0 - 1), Max(Zero, Sub(p, AbsP(p, c3), Dec(25, 0 - 2)))))

\* The soft penalty, doubled.
SqrtPenaltyDouble == Dec(10, 0)

\* The soft penalty for a negative dispersion ratio.
SqrtPenalty == Dec(5, 0)

\* A length check that lets lists longer than N_OPS through.
WrongLengthShort(items) == Len(items) < N_OPS

\* if len(coefficients) != N_OPS
WrongLength(items) == Len(items) # N_OPS

\* abs(x - target) / target
RelDev(p, x, target) == Div(p, AbsP(p, Sub(p, x, target)), target)

\* c_squared = -B_coeff / A_coeff, with A_coeff = -2*c0 and B_coeff = -2*c1.
DispersionRatio(p, c0, c1) ==
    Div(p, NegP(p, Mul(p, Dec(0 - 2, 0), c1)), Mul(p, Dec(0 - 2, 0), c0))

\* The modelled speed of the direct variant, with its natural-units fallback.
DirectSpeed(p, c_squared) ==
    LET root   == Sqrt(p, AbsP(p, c_squared))
        scaled == Mul(p, Mul(p, root, C_TARGET_DEC),
                      Dec(IF Ge(c_squared, Zero) THEN 1 ELSE 0 - 1, 0))
    IN  IF Gt(AbsP(p, scaled), Mul(p, Dec(2, 0), C_TARGET_DEC))
        THEN root ELSE scaled

DirectAlpha(p, c4) == Div(p, AbsP(p, c4), Mul(p, Dec(4, 0), PI))

\* The sum of the direct variant's fitness terms, in floats.
DirectFitness(p, coeffs, delta_alpha, extra_penalty) ==
    LET c0 == coeffs[1]
        ghost_penalty   == IF \/ Gt(c0, Zero) /\ Gt(coeffs[2], Zero)
                              \/ Lt(c0, Zero) /\ Lt(coeffs[2], Zero)
                           THEN IntNum(1) ELSE IntNum(0)
        tachyon_penalty == IF Gt(coeffs[3], Zero)
                           THEN Fin(Dec(5, 0 - 1)) ELSE IntNum(0)
        em_penalty      == IF Gt(coeffs[5], Zero)
                           THEN Fin(Dec(5, 0 - 2)) ELSE IntNum(0)
    IN  FloatAdd(FloatAdd(FloatAdd(FloatAdd(FloatAdd(
            Float(delta_alpha), ghost_penalty), tachyon_penalty),
            em_penalty), Float(extra_penalty)),
            Float(StructPenalty(p, coeffs[3], coeffs[4])))

\* From the hard-constraint gate to the return.
DirectGate(p, coeffs, coefficients, c_model, alpha_model, grav, delta_c, delta_alpha, eps, extra_penalty) ==
    IF Violates(delta_c, grav.delta_G, eps)
    THEN Return(DirectReject(KNOCKOUT, coefficients),
                GateTrace(delta_c, grav.delta_G, delta_alpha, eps, extra_penalty))
    ELSE Return([fitness |-> DirectFitness(p, coeffs, delta_alpha, extra_penalty),
                 c_model |-> Float(c_model),
                 alpha_model |-> Float(alpha_model),
                 g_model |-> IF grav.inf THEN Inf(1) ELSE Float(grav.G_model),
                 delta_c |-> Float(delta_c), delta_alpha |-> Float(delta_alpha),
                 delta_g |-> Float(grav.delta_G), coefficients |-> coefficients,
                 precision_mode |-> "high_precision_decimal"],
                GateTrace(delta_c, grav.delta_G, delta_alpha, eps, extra_penalty))

\* The observables and their deviations, then the gate.
DirectObservables(p, g, coeffs, coefficients, c_model, alpha_model, extra_penalty) ==
    DirectGate(p, coeffs, coefficients, c_model, alpha_model,
               DirectGravity(p, coeffs[6]),
               RelDev(p, c_model, C_TARGET_DEC),
               RelDev(p, alpha_model, ALPHA_TARGET_DEC),
               EffectiveEps(p, g), extra_penalty)

\* From the soft handling of a negative c_squared on.
DirectFromRatio(p, g, coeffs, coefficients, ratio) ==
    LET extra_penalty == IF Lt(ratio, Zero) THEN SqrtPenalty ELSE Zero
        c_squared     == IF Lt(ratio, Zero) THEN NegP(p, ratio) ELSE ratio
    IN  IF c_squared = Zero
        THEN Return(DirectReject(DirectZeroRatio, coefficients), NoTrace)
        ELSE DirectObservables(p, g, coeffs, coefficients,
                               DirectSpeed(p, c_squared),
                               DirectAlpha(p, coeffs[5]), extra_penalty)

DirectFromCoeffs(p, g, coeffs, coefficients) ==
    IF Lt(AbsP(p, coeffs[1]), Dec(1, 0 - 15))
    THEN Return(DirectReject(DirectDegenerateC0, coefficients), NoTrace)
    ELSE DirectFromRatio(p, g, coeffs, coefficients,
                         DispersionRatio(p, coeffs[1], coeffs[2]))

DirectBody(coefficients, g, p) ==
    IF coefficients.k # "list" THEN Raise("TypeError")
    ELSE IF WrongLength(coefficients.items) THEN Raise("ValueError")
    ELSE IF \E i \in 1..Len(coefficients.items) : ~IsNumeric(coefficients.items[i])
    THEN Raise("InvalidOperation")
    ELSE DirectFromCoeffs(p, g,
             [i \in 1..N_OPS |-> ToDecimal(coefficients.items[i])], coefficients)

\* The rejection record of the VEV variant.
VevReject(fitness, g_em, xi, coefficients) ==
    [fitness |-> fitness, c_model |-> IntNum(0), alpha_model |-> IntNum(0),
     g_model |-> IntNum(0), delta_c |-> IntNum(1), delta_alpha |-> IntNum(1),
     delta_g |-> IntNum(1), phi0 |-> IntNum(0), elegance_score |-> IntNum(0),
     g_em |-> g_em, xi |-> xi, coefficients |-> coefficients]

\* The fitness returned for an A_coeff of magnitude below 1e-15 (VEV variant).
VevDegenerateA == THOUSAND

\* Phase 6 of the VEV variant: [c3_elegance, coupling_simplicity,
\* relation_bonus, elegance_score].
EleganceUnweighted(p, c3, g_em, xi) ==
    LET target_c3   == Div(p, Dec(1, 0), Mul(p, Dec(8, 0), PI))
        c3_elegance == Max(Zero, Sub(p, Dec(1, 0),
                           Div(p, AbsP(p, Sub(p, c3, target_c3)), target_c3)))
        coupling_simplicity ==
            Max(Zero, Sub(p, Dec(1, 0),
                     Div(p, Add(p, AbsP(p, g_em), AbsP(p, xi)), Dec(200, 0))))
        bonus1 == IF Lt(AbsP(p, Sub(p, g_em, c3)), Dec(1, 0 - 2))
                  THEN Add(p, Zero, Dec(25, 0 - 2)) ELSE Zero
        relation_bonus ==
            IF Lt(AbsP(p, Sub(p, xi, Mul(p, c3, c3))), Dec(1, 0 - 2))
            THEN Add(p, bonus1, Dec(25, 0 - 2)) ELSE bonus1
    IN  [c3_elegance |-> c3_elegance,
         coupling_simplicity |-> coupling_simplicity,
         relation_bonus |-> relation_bonus,
         elegance_score |->
             Add(p, Add(p, c3_elegance, coupling_simplicity), relation_bonus)]
Elegance(p, c3, g_em, xi) ==
    LET target_c3   == Div(p, Dec(1, 0), Mul(p, Dec(8, 0), PI))
        c3_elegance == Max(Zero, Sub(p, Dec(1, 0),
                           Div(p, AbsP(p, Sub(p, c3, target_c3)), target_c3)))
        coupling_simplicity ==
            Max(Zero, Sub(p, Dec(1, 0),
                     Div(p, Add(p, AbsP(p, g_em), AbsP(p, xi)), Dec(200, 0))))
        bonus1 == IF Lt(AbsP(p, Sub(p, g_em, c3)), Dec(1, 0 - 2))
                  THEN Add(p, Zero, Dec(25, 0 - 2)) ELSE Zero
        relation_bonus ==
            IF Lt(AbsP(p, Sub(p, xi, Mul(p, c3, c3))), Dec(1, 0 - 2))
            THEN Add(p, bonus1, Dec(25, 0 - 2)) ELSE bonus1
    IN  [c3_elegance |-> c3_elegance,
         coupling_simplicity |-> coupling_simplicity,
         relation_bonus |-> relation_bonus,
         elegance_score |->
             Add(p, Add(p, Mul(p, Dec(5, 0 - 1), c3_elegance),
                           Mul(p, Dec(3, 0 - 1), coupling_simplicity)),
                    Mul(p, Dec(2, 0 - 1), relation_bonus))]

\* The wave-speed deviation of the Lorentz isotropy check.
LorentzEpsOfMagnitudes(p, c0, c1) ==
    IF c0 # Zero
    THEN LET a == AbsP(p, c0)  b == AbsP(p, c1)
         IN  IF Gt(a, Zero) /\ Gt(b, Zero)
             THEN AbsP(p, Sub(p, Sqrt(p, Div(p, b, a)), Dec(1, 0)))
             ELSE Dec(1, 0)
    ELSE Dec(1, 0)
LorentzEps(p, c0, c1) ==
    IF c0 # Zero
    THEN LET a == NegP(p, c0)
             b == c1
         IN  IF Gt(a, Zero) /\ Gt(b, Zero)
             THEN AbsP(p, Sub(p, Sqrt(p, Div(p, b, a)), Dec(1, 0)))
             ELSE Dec(1, 0)
    ELSE Dec(1, 0)

\* The tiers with the factors of the linear and the steep tier exchanged.
LorentzPenaltyExchanged(p, lorentz_eps) ==
    IF Lt(lorentz_eps, Dec(1, 0 - 12)) THEN Zero
    ELSE IF Lt(lorentz_eps, Dec(1, 0 - 8)) THEN Mul(p, Dec(100, 0), lorentz_eps)
    ELSE Mul(p, Dec(10, 0), lorentz_eps)

\* The three-tier Lorentz penalty.
LorentzPenalty(p, lorentz_eps) ==
    IF Lt(lorentz_eps, Dec(1, 0 - 12)) THEN Zero
    ELSE IF Lt(lorentz_eps, Dec(1, 0 - 8)) THEN Mul(p, Dec(10, 0), lorentz_eps)
    ELSE Mul(p, Dec(100, 0), lorentz_eps)

\* Phase 8: the fitness of the VEV variant.
VevFitness(p, coeffs, delta_alpha, fitness_penalty, elegance_score) ==
    LET ghost_penalty   == IF Lt(coeffs[1], Zero) /\ Gt(coeffs[2], Zero)
                           THEN Zero ELSE Dec(1, 0)
        tachyon_penalty == IF Ge(coeffs[3], Zero) THEN Zero ELSE Dec(5, 0 - 1)
        lorentz_penalty ==
            LorentzPenalty(p, LorentzEps(p, coeffs[1], coeffs[2]))
    IN  Sub(p, Add(p, Add(p, Add(p, Add(p, delta_alpha, ghost_penalty),
                                 tachyon_penalty), lorentz_penalty),
                   fitness_penalty),
            Mul(p, Dec(1, 0 - 1), elegance_score))

\* Phases 6 to 8 and the return.
VevScore(p, coeffs, coefficients, phi0, alpha_eff, G_eff, c_model, delta_c, delta_alpha, delta_g, fitness_penalty, el, tr) ==
    Return([fitness |-> Float(VevFitness(p, coeffs, delta_alpha,
                                         fitness_penalty, el.elegance_score)),
            c_model |-> Float(c_model),
            alpha_model |-> Float(alpha_eff), g_model |-> Float(G_eff),
            delta_c |-> Float(delta_c), delta_alpha |-> Float(delta_alpha),
            delta_g |-> Float(delta_g), phi0 |-> Float(phi0),
            elegance_score |-> Float(el.elegance_score),
            elegance_details |->
                [c3_elegance |-> Float(el.c3_elegance),
                 coupling_simplicity |-> Float(el.coupling_simplicity),
                 relation_bonus |-> Float(el.relation_bonus)],
            g_em |-> Float(coeffs[5]), xi |-> Float(coeffs[6]),
            coefficients |-> coefficients,
            precision_mode |-> "high_precision_decimal"], tr)

\* Phase 5: the gate.
VevGate(p, coeffs, coefficients, phi0, alpha_eff, G_eff, c_model, delta_c, delta_alpha, delta_g, eps, fitness_penalty) ==
    IF Violates(delta_c, delta_g, eps)
    THEN Return(VevReject(KNOCKOUT, Float(coeffs[5]), Float(coeffs[6]),
                          coefficients),
                GateTrace(delta_c, delta_g, delta_alpha, eps, fitness_penalty))
    ELSE VevScore(p, coeffs, coefficients, phi0, alpha_eff, G_eff, c_model,
                  delta_c, delta_alpha, delta_g, fitness_penalty,
                  Elegance(p, coeffs[4], coeffs[5], coeffs[6]),
                  GateTrace(delta_c, delta_g, delta_alpha, eps, fitness_penalty))

\* Phase 4: the deviations.
VevDeviations(p, g, coeffs, coefficients, phi0, alpha_eff, G_eff, c_model, fitness_penalty) ==
    VevGate(p, coeffs, coefficients, phi0, alpha_eff, G_eff, c_model,
            RelDev(p, c_model, C_TARGET_DEC),
            RelDev(p, alpha_eff, ALPHA_TARGET_DEC),
            RelDev(p, G_eff, G_TARGET_DEC),
            EffectiveEps(p, g), fitness_penalty)

\* Phase 3: the modelled speed from the dispersion ratio.
VevSpeed(p, g, coeffs, coefficients, phi0, alpha_eff, G_eff, penalty1, ratio) ==
    VevDeviations(p, g, coeffs, coefficients, phi0, alpha_eff, G_eff,
        Mul(p, Sqrt(p, IF Le(ratio, Zero) THEN AbsP(p, ratio) ELSE ratio),
            C_TARGET_DEC),
        IF Le(ratio, Zero) THEN Add(p, penalty1, SqrtPenalty) ELSE penalty1)

VevFromEffective(p, g, coeffs, coefficients, phi0, alpha_eff, G_eff, penalty1) ==
    IF Lt(AbsP(p, Mul(p, Dec(0 - 2, 0), coeffs[1])), Dec(1, 0 - 15))
    THEN Return(VevReject(VevDegenerateA, Float(coeffs[5]), Float(coeffs[6]),
                          coefficients), NoTrace)
    ELSE VevSpeed(p, g, coeffs, coefficients, phi0, alpha_eff, G_eff, penalty1,
                  DispersionRatio(p, coeffs[1], coeffs[2]))

\* Phase 2: the effective constants; a zero denominator raises.
VevFromPhi(p, g, coeffs, coefficients, phi0, penalty1, den_alpha, den_G) ==
    IF Gt(phi0, Zero) /\ (den_alpha = Zero \/ den_G = Zero)
    THEN Raise("DivisionByZero")
    ELSE VevFromEffective(p, g, coeffs, coefficients, phi0,
             IF Gt(phi0, Zero) THEN Div(p, ALPHA_TARGET_DEC, den_alpha)
             ELSE ALPHA_TARGET_DEC,
             IF Gt(phi0, Zero) THEN Div(p, G_TARGET_DEC, den_G)
             ELSE G_TARGET_DEC,
             penalty1)

\* 1 + coupling * phi0 * phi0
Dampening(p, coupling, phi0) ==
    Add(p, Dec(1, 0), Mul(p, Mul(p, coupling, phi0), phi0))

\* Phase 1: the vacuum expectation value.
VevFromCoeffs(p, g, coeffs, coefficients, phi0, penalty1) ==
    VevFromPhi(p, g, coeffs, coefficients, phi0, penalty1,
               Dampening(p, coeffs[5], phi0), Dampening(p, coeffs[6], phi0))

RealVev(c2, c3) == Gt(c2, Zero) /\ Gt(c3, Zero)

VevBody(coefficients, g, p) ==
    IF coefficients.k # "list" THEN Raise("TypeError")
    ELSE IF WrongLength(coefficients.items) THEN Raise("ValueError")
    ELSE IF \E i \in 1..Len(coefficients.items) : ~IsNumeric(coefficients.items[i])
    THEN Raise("InvalidOperation")
    ELSE IF Len(coefficients.items) # 6 THEN Raise("ValueError")
    ELSE LET coeffs == [i \in 1..N_OPS |-> ToDecimal(coefficients.items[i])]
         IN  IF RealVev(coeffs[3], coeffs[4])
             THEN VevFromCoeffs(p, g, coeffs, coefficients,
                                Sqrt(p, Div(p, coeffs[3], coeffs[4])), Zero)
             ELSE VevFromCoeffs(p, g, coeffs, coefficients, Zero,
                                Add(p, Zero, Dec(10, 0)))

(***************************************************************************)
(* evaluate_chromosome_high_precision, whole: the precision step before    *)
(* the try block, the body, and the exception handler.                     *)
(*                                                                         *)
(* The value is [escaped, err, prec, result, printed, traced, tr]:         *)
(* escaped = TRUE when an exception leaves the function (err names it),    *)
(* prec is the context precision afterwards, printed is the number of text *)
(* lines the handler printed to standard output, traced whether it wrote a *)
(* traceback to standard error.                                            *)
(***************************************************************************)
Body(variant, coefficients, g, p) ==
    IF variant = "direct" THEN DirectBody(coefficients, g, p)
    ELSE VevBody(coefficients, g, p)

\* The record the direct handler returns.
DirectErrorRecord(coefficients, err) ==
    [fitness |-> KNOCKOUT, c_model |-> IntNum(0), alpha_model |-> IntNum(0),
     g_model |-> IntNum(0), delta_c |-> IntNum(1), delta_alpha |-> IntNum(1),
     delta_g |-> IntNum(1), coefficients |-> coefficients, error |-> err]

\* The record the VEV handler returns; len(coefficients) is taken twice.
VevErrorRecord(coefficients, err) ==
    [fitness |-> KNOCKOUT, c_model |-> IntNum(0), alpha_model |-> IntNum(0),
     g_model |-> IntNum(0), delta_c |-> IntNum(1), delta_alpha |-> IntNum(1),
     delta_g |-> IntNum(1), phi0 |-> IntNum(0), elegance_score |-> IntNum(0),
     g_em |-> IF Len(coefficients.items) > 4 THEN coefficients.items[5]
              ELSE IntNum(0),
     xi |-> IF Len(coefficients.items) > 5 THEN coefficients.items[6]
            ELSE IntNum(0),
     coefficients |-> coefficients, error |-> err]

\* Whether the handler itself raises: len() of a value that has none.
HandlerRaises(variant, coefficients) ==
    variant = "vev" /\ coefficients.k # "list"

\* The number of lines the handler prints to standard output.
HandlerPrints == 2

NoResult == [none |-> TRUE]

\* What the call leaves behind: whether an exception escaped it, the
\* precision context, the returned record, the lines the handler printed.
Outcome(escaped, err, prec, result, printed, traced, tr) ==
    [escaped |-> escaped, err |-> err, prec |-> prec, result |-> result,
     printed |-> printed, traced |-> traced, tr |-> tr]

\* The try block's outcome b, through the except clause.
Handler(variant, coefficients, tier, b) ==
    IF b.out = "return"
    THEN Outcome(FALSE, "", tier, b.result, 0, FALSE, b.tr)
    ELSE IF HandlerRaises(variant, coefficients)
    THEN Outcome(TRUE, "TypeError", tier, NoResult, HandlerPrints, TRUE, b.tr)
    ELSE Outcome(FALSE, "", tier,
                 IF variant = "direct"
                 THEN DirectErrorRecord(coefficients, b.err)
                 ELSE VevErrorRecord(coefficients, b.err),
                 HandlerPrints, TRUE, b.tr)

\* The precision step, outside the try block, then the try block.
SetPrecisionThenTry(variant, coefficients, g, tier) ==
    Handler(variant, coefficients, tier,
            Body(variant, coefficients, g, WorkDigits(tier)))

\* The try block under the context the caller left; the precision step
\* only afterwards.
EvaluateChromosomeLatePrecision(variant, coefficients, generation, prec) ==
    IF ~Comparable(generation)
    THEN Outcome(TRUE, "TypeError", prec, NoResult, 0, FALSE, NoTrace)
    ELSE Handler(variant, coefficients, PrecisionTier(generation.v),
                 Body(variant, coefficients, generation.v, WorkDigits(prec)))

EvaluateChromosome(variant, coefficients, generation, prec) ==
    IF ~Comparable(generation)
    THEN Outcome(TRUE, "TypeError", prec, NoResult, 0, FALSE, NoTrace)
    ELSE SetPrecisionThenTry(variant, coefficients, generation.v,
                             PrecisionTier(generation.v))

(***************************************************************************)
(* The worker process: main()                                              *)
(***************************************************************************)
VARIABLES
    variant,   \* which worker file runs
    prec,      \* getcontext().prec
    pc,        \* "loop": blocked on the next input line; "eof", "crashed",
               \* "interrupted": main() has returned; "call", "returned",
               \* "raised": a direct call of the evaluator (EvalSpec)
    req,       \* the input line last read (or the call's arguments)
    result,    \* the object last written to standard output (or returned)
    tr,        \* the gate's locals of the last evaluation
    stdout,    \* the lines written to standard output, in order
    stderr,    \* the lines written to standard error, in order
    nread,     \* the number of input lines read
    calls      \* the calls of the evaluator that returned, in order: each
               \* with its arguments and the record it returned

vars == <<variant, prec, pc, req, result, tr, stdout, stderr, nread, calls>>

\* JSON values of a request.
List(items) == [k |-> "list", items |-> items]
NotAList    == [k |-> "int", items |-> <<>>]     \* a number: it has no len()
Gen(n)      == [k |-> "int", v |-> n]
NotANumber  == [k |-> "str", v |-> 0]            \* text: not comparable to 500

\* An input line: blank, text that is no JSON, a JSON value that is no
\* object, or an object with its 'command' and the fields it carries.
Line(kind, command, has_c, coefficients, has_g, generation) ==
    [kind |-> kind, command |-> command,
     has_coefficients |-> has_c, coefficients |-> coefficients,
     has_generation |-> has_g, generation |-> generation]

Plain(kind, command) == Line(kind, command, FALSE, List(<<>>), FALSE, Gen(0))

EvaluateLine(coefficients, generation) ==
    Line("object", "evaluate", TRUE, coefficients, TRUE, generation)

\* A line of output: one JSON object, or text that is none; n is the input
\* line it was written for.
JsonLine(n) == [kind |-> "json", n |-> n]
TextLine(n) == [kind |-> "text", n |-> n]

RECURSIVE Repeat(_, _)
Repeat(x, n) == IF n = 0 THEN <<>> ELSE <<x>> \o Repeat(x, n - 1)

\* Bounds of the model.
MaxLines == 2

\* The inputs of the worker specification.
GoodDirect == <<Num(0 - 1, 0), Num(1, 0), Num(0 - 1, 0 - 1), Num(1, 0 - 1),
                Num(0 - 917, 0 - 4), Num(6674, 0 - 14)>>
GoodVev    == <<Num(0 - 1, 0), Num(1, 0), Num(1, 0), Num(4, 0 - 2),
                Num(0, 0), Num(0, 0)>>

WorkerCoefficients ==
    { List(GoodDirect), List(GoodVev),
      List([GoodDirect EXCEPT ![1] = Num(0, 0)]),
      List([GoodDirect EXCEPT ![2] = Num(0, 0)]),
      List([GoodDirect EXCEPT ![3] = Str]),
      List(<<Num(1, 0), Num(2, 0)>>),
      NotAList }

WorkerGenerations == { Gen(0), Gen(600), Gen(1000), NotANumber }

Init ==
    /\ variant \in Variants
    /\ prec = PrecisionTier(0)
    /\ pc = "loop"
    /\ req = Plain("blank", "absent")
    /\ result = NoResult
    /\ tr = NoTrace
    /\ stdout = <<>>
    /\ stderr = <<>>
    /\ nread = 0
    /\ calls = <<>>

\* for line in sys.stdin: the next line arrives.
Reads(line) ==
    /\ pc = "loop"
    /\ nread < MaxLines
    /\ nread' = nread + 1
    /\ req' = line
    /\ UNCHANGED variant

\* An exception reaches main()'s handler: one JSON object on standard
\* error, and main() returns.
Crashes ==
    /\ pc' = "crashed"
    /\ stderr' = Append(stderr, JsonLine(nread + 1))

\* if line.strip(): a blank line is skipped.
Blank ==
    /\ Reads(Plain("blank", "absent"))
    /\ UNCHANGED <<prec, pc, result, tr, stdout, stderr, calls>>

\* json.loads raises on text that is no JSON; data.get raises on a JSON
\* value that is no object.
Malformed ==
    \E kind \in {"garbage", "nonobject"} :
        /\ Reads(Plain(kind, "absent"))
        /\ Crashes
        /\ UNCHANGED <<prec, result, tr, stdout, calls>>

\* data['coefficients'] or data['generation'] raises KeyError.
EvaluateMissingField ==
    \E has_c, has_g \in BOOLEAN, c \in WorkerCoefficients, g \in WorkerGenerations :
        /\ ~(has_c /\ has_g)
        /\ Reads(Line("object", "evaluate", has_c,
                      IF has_c THEN c ELSE List(<<>>),
                      has_g, IF has_g THEN g ELSE Gen(0)))
        /\ Crashes
        /\ UNCHANGED <<prec, result, tr, stdout, calls>>

\* The call with arguments c, g that returned the record r.
CallRecord(c, g, r) == [coefficients |-> c, generation |-> g, result |-> r]

\* What main() does with the outcome r of the call for input line n.
Responds(r, n) ==
    /\ calls' = IF r.escaped THEN calls
                ELSE Append(calls, CallRecord(req'.coefficients,
                                              req'.generation, r.result))
    /\ prec' = r.prec
    /\ tr' = r.tr
    /\ result' = IF r.escaped THEN result ELSE r.result
    /\ stdout' = stdout \o Repeat(TextLine(n), r.printed)
                        \o (IF r.escaped THEN <<>> ELSE <<JsonLine(n)>>)
    /\ stderr' = stderr \o (IF r.traced THEN <<TextLine(n)>> ELSE <<>>)
                        \o (IF r.escaped THEN <<JsonLine(n)>> ELSE <<>>)
    /\ pc' = IF r.escaped THEN "crashed" ELSE "loop"

\* An evaluate that answers with the record of the request before it when
\* the coefficients are the same, whatever the generation.
EvaluateCached ==
    \E c \in WorkerCoefficients, g \in WorkerGenerations :
        /\ Reads(EvaluateLine(c, g))
        /\ Responds([EvaluateChromosome(variant, c, g, prec) EXCEPT
                       !.result = IF /\ calls # <<>>
                                     /\ calls[Len(calls)].coefficients = c
                                  THEN calls[Len(calls)].result
                                  ELSE @],
                    nread + 1)

\* command == 'evaluate' with both fields present.
Evaluate ==
    \E c \in WorkerCoefficients, g \in WorkerGenerations :
        /\ Reads(EvaluateLine(c, g))
        /\ Responds(EvaluateChromosome(variant, c, g, prec), nread + 1)

ModeName == "high_precision_decimal"

\* A ping that runs the precision step for generation 0 before it answers.
PingResets ==
    /\ Reads(Plain("object", "ping"))
    /\ prec' = PrecisionTier(0)
    /\ result' = [status |-> "ready", precision |-> prec', mode |-> ModeName]
    /\ stdout' = Append(stdout, JsonLine(nread + 1))
    /\ UNCHANGED <<pc, tr, stderr, calls>>

Ping ==
    /\ Reads(Plain("object", "ping"))
    /\ result' = [status |-> "ready", precision |-> prec, mode |-> ModeName]
    /\ stdout' = Append(stdout, JsonLine(nread + 1))
    /\ UNCHANGED <<prec, pc, tr, stderr, calls>>

TestAlphaText == "0.007297352566411018123456789"

\* A self-test that reports the precision the module was loaded with.
TestPrecisionDefault ==
    /\ Reads(Plain("object", "test_precision"))
    /\ result' = [test_value |-> TestAlphaText,
                  precision_digits |-> Len(TestAlphaText) - 1,
                  context_precision |-> DEFAULT_PRECISION]
    /\ stdout' = Append(stdout, JsonLine(nread + 1))
    /\ UNCHANGED <<prec, pc, tr, stderr, calls>>

TestPrecision ==
    /\ Reads(Plain("object", "test_precision"))
    /\ result' = [test_value |-> TestAlphaText,
                  precision_digits |-> Len(TestAlphaText) - 1,
                  context_precision |-> prec]
    /\ stdout' = Append(stdout, JsonLine(nread + 1))
    /\ UNCHANGED <<prec, pc, tr, stderr, calls>>

\* No branch of the if / elif chain matches: nothing is written.
UnknownCommand ==
    \E command \in {"other", "absent"} :
        /\ Reads(Plain("object", command))
        /\ UNCHANGED <<prec, pc, result, tr, stdout, stderr, calls>>

\* sys.stdin is exhausted: the for loop ends and main() returns.
EndOfInput ==
    /\ pc = "loop"
    /\ pc' = "eof"
    /\ UNCHANGED <<variant, prec, req, result, tr, stdout, stderr, nread, calls>>

\* except KeyboardInterrupt: pass
Interrupt ==
    /\ pc = "loop"
    /\ pc' = "interrupted"
    /\ UNCHANGED <<variant, prec, req, result, tr, stdout, stderr, nread, calls>>

Next ==
    \/ Blank
    \/ Malformed
    \/ EvaluateMissingField
    \/ Evaluate
    \/ Ping
    \/ TestPrecision
    \/ UnknownCommand
    \/ EndOfInput
    \/ Interrupt

Spec == Init /\ [][Next]_vars

(***************************************************************************)
(* A direct call of evaluate_chromosome_high_precision                     *)
(*                                                                         *)
(* The function under every argument of a bounded set: the state before    *)
(* the call holds the arguments in req, the state after it what the call   *)
(* returned or that it raised.                                             *)
(***************************************************************************)
\* The number of calls with the same arguments.
MaxCalls == 2

\* The largest generation of the dense range of generations.
MaxGeneration == 101

EvalC0 == { Num(0 - 1, 0), Num(1, 0), Num(0, 0) }
EvalC1 == { Num(1, 0), Num(0 - 1, 0), Num(0, 0), Num(101, 0 - 2) }
EvalC2 == { Num(0 - 1, 0 - 1), Num(1, 0) }
EvalC3 == { Num(1, 0 - 1), Num(4, 0 - 2) }
EvalC4 == { Num(0 - 917, 0 - 4), Num(1, 308), Num(0, 0) }
EvalC5 == { Num(6674, 0 - 14), Num(0, 0), Num(0 - 5, 0 - 1), Num(0 - 4, 0 - 2) }

\* Every 6-coefficient list over the values above.
EvalVectors ==
    { List(<<c0, c1, c2, c3, c4, c5>>) :
        c0 \in EvalC0, c1 \in EvalC1, c2 \in EvalC2,
        c3 \in EvalC3, c4 \in EvalC4, c5 \in EvalC5 }

\* Lists near both variants' targets, for the whole range of generations.
NearTarget ==
    { List(GoodDirect), List(GoodVev),
      List([GoodDirect EXCEPT ![2] = Num(101, 0 - 2)]),
      List([GoodVev EXCEPT ![2] = Num(101, 0 - 2)]),
      List([GoodDirect EXCEPT ![6] = Num(6681, 0 - 14)]),
      List([GoodVev EXCEPT ![6] = Num(4, 0 - 5)]) }

\* -ALPHA_TARGET_DEC * 4 * PI, computed under the debug script's precision
\* of 30 digits and passed on as a JSON number.
DebugC4 ==
    LET d == NegP(WorkDigits(30),
                  Mul(WorkDigits(30),
                      Mul(WorkDigits(30), ALPHA_TARGET_DEC, Dec(4, 0)), PI))
    IN  Num(d.c, d.e)

\* test_coeffs of the debug script, and the same list with a gravity
\* coefficient near the target.
DebugVectors ==
    { List(<<Num(0 - 1, 0), Num(1, 0), Num(0 - 1, 0 - 1), Num(1, 0 - 1),
             DebugC4, Num(0 - 5, 0 - 1)>>),
      List(<<Num(0 - 1, 0), Num(1, 0), Num(0 - 1, 0 - 1), Num(1, 0 - 1),
             DebugC4, Num(6674, 0 - 14)>>) }

\* Lists whose couplings meet one or both of the relations g_em = c3 and
\* xi = c3 * c3, or neither.
ElegantVectors ==
    { List([GoodVev EXCEPT ![5] = Num(4, 0 - 2)]),
      List([GoodVev EXCEPT ![5] = Num(45, 0 - 3), ![6] = Num(6, 0 - 2)]),
      List([GoodVev EXCEPT ![5] = Num(1, 0), ![6] = Num(6, 0 - 2)]),
      List([GoodVev EXCEPT ![4] = Num(398, 0 - 4), ![5] = Num(4, 0 - 2),
                           ![6] = Num(16, 0 - 4)]) }

\* Arguments that are no list of 6 numbers.
Unstructured ==
    { List(<<>>), List(<<Num(1, 0), Num(2, 0)>>),
      List(GoodDirect \o <<Num(1, 0)>>),
      List(<<Num(0 - 1, 0), Num(1, 0), Num(1, 0), Num(1, 0), Num(3, 0)>>),
      List([GoodDirect EXCEPT ![3] = Str]),
      NotAList }

EvalGenerations ==
    { Gen(g) : g \in ((0 - 3)..MaxGeneration)
                     \cup {300, 499, 500, 501, 502, 999, 1000, 5000,
                           10499, 10500, 10501, 20000} }

EvalArguments ==
    { EvaluateLine(c, g) : c \in EvalVectors, g \in {Gen(0), Gen(55), Gen(1000)} }
    \cup { EvaluateLine(c, g) : c \in NearTarget, g \in EvalGenerations }
    \cup { EvaluateLine(c, g) : c \in Unstructured \cup NearTarget,
                                g \in {Gen(0 - 1), Gen(0), Gen(600), NotANumber} }
    \cup { EvaluateLine(c, Gen(0)) : c \in DebugVectors \cup ElegantVectors }

InitEval ==
    /\ variant \in Variants
    /\ prec \in {PrecisionTier(g.v) : g \in EvalGenerations}
    /\ pc = "call"
    /\ req \in EvalArguments
    /\ result = NoResult
    /\ tr = NoTrace
    /\ stdout = <<>>
    /\ stderr = <<>>
    /\ nread = 0
    /\ calls = <<>>

\* What the call with outcome r leaves behind.
Returns(r) ==
    /\ calls' = IF r.escaped THEN calls
                ELSE Append(calls, CallRecord(req.coefficients,
                                              req.generation, r.result))
    /\ prec' = r.prec
    /\ tr' = r.tr
    /\ result' = r.result
    /\ stdout' = stdout \o Repeat(TextLine(1), r.printed)
    /\ stderr' = stderr \o (IF r.traced THEN <<TextLine(1)>> ELSE <<>>)
    /\ pc' = IF r.escaped THEN "raised" ELSE "returned"

\* The call, and the same call again under the context the one before
\* it left, up to MaxCalls calls.
Call ==
    /\ pc \in {"call", "returned"}
    /\ Len(calls) < MaxCalls
    /\ Returns(EvaluateChromosome(variant, req.coefficients, req.generation, prec))
    /\ UNCHANGED <<variant, req, nread>>

EvalNext == Call

EvalSpec == InitEval /\ [][EvalNext]_vars

(***************************************************************************)
(* The one-shot computation scripts of server/computations                 *)
(*                                                                         *)
(* Each script is a process started with its command line, which ends      *)
(* after one run: variant names the script, req holds the command-line     *)
(* argument, pc goes from "start" to "exit0" or "exit1" (the exit status), *)
(* result is the JSON object written to standard output, if any.           *)
(***************************************************************************)
Scripts == {"global-anomaly", "anomaly-scan", "gravity-zero",
            "stability-test", "rg-flow"}

\* The largest number of entries of a 'reps' or 'operators' array.
MaxReps == 3
MaxOps == 2

\* A representation: the fields it carries (has) and their values.
Rep(group, chirality, dim, dynkin, q_u1) ==
    [has |-> {"group", "chirality", "dim", "dynkin", "q_u1"},
     group |-> group, chirality |-> chirality,
     dim |-> dim, dynkin |-> dynkin, q_u1 |-> q_u1]

Without(rep, field) == [rep EXCEPT !.has = @ \ {field}]

RepKinds ==
    { Rep("SU2", "L", 2, 1, 0), Rep("SU2", "R", 2, 1, 0),
      Rep("SU3", "L", 3, 1, 0), Rep("U1", "R", 1, 0, 1),
      Without(Rep("SU2", "L", 2, 1, 0), "chirality"),
      Without(Rep("SU3", "R", 3, 1, 0), "chirality"),
      Without(Rep("U1", "L", 1, 0, 1), "group") }

\* An entry of 'operators': a JSON value that is no object, or an object
\* with the fields it carries; raw is the value of 'coeff' (of 'value' if
\* there is no 'coeff'), None if neither is there.
Op(kind, has_name, name, raw) ==
    [kind |-> kind, has_name |-> has_name, name |-> name, raw |-> raw]

Null     == [k |-> "null", c |-> 0, e |-> 0]
NumText  == [k |-> "numtext", c |-> 5, e |-> 0 - 1]    \* the string "0.5"

OpKinds ==
    { Op("nonobject", FALSE, "", Null), Op("object", FALSE, "", Num(1, 0)) }
    \cup { Op("object", TRUE, name, raw) :
             name \in {"phi4", "R2", "phi2R", "other"},
             raw \in {Num(1, 0), Num(0 - 2, 0), Null, Str, NumText} }

\* The command line: no argument, text that is no JSON, a JSON value that
\* is no object, or an object with the fields it carries.
Argument(kind, has, coeffs, reps, generations, operators) ==
    [kind |-> kind, has |-> has, coeffs |-> coeffs, reps |-> reps,
     generations |-> generations, operators |-> operators]

NoFields(kind) == Argument(kind, {}, NotAList, <<>>, 1, List(<<>>))

SeqUpTo(S, n) == UNION { [1..k -> S] : k \in 0..n }

\* The command lines of a run of each script.
RepsArguments ==
    { Argument("object", {"reps", "generations"}, NotAList, reps, n_gen, List(<<>>)) :
        reps \in SeqUpTo(RepKinds, MaxReps), n_gen \in 1..3 }
    \cup { Argument("object", {"reps"}, NotAList, reps, 1, List(<<>>)) :
              reps \in SeqUpTo(RepKinds, MaxReps) }
    \cup { Argument("object", {"generations"}, NotAList, <<>>, 2, List(<<>>)) }

CoeffsArguments ==
    { Argument("object", {"coeffs"}, coeffs, <<>>, 1, List(<<>>)) :
        coeffs \in { List(<<>>), List(<<Num(1, 0), Num(2, 0)>>),
                     List(<<Num(0 - 1, 0), Num(1, 0), Num(1, 0 - 1)>>),
                     List(<<Num(0 - 1, 0), Num(1, 0), Str>>),
                     List(<<Num(0 - 1, 0), Num(1, 0), Num(1, 0 - 1),
                            Num(1, 0 - 1), Num(3, 0 - 1)>>),
                     List(<<Num(0 - 1, 0), Num(1, 0), Str,
                            Num(1, 0 - 1), Str>>),
                     List(GoodDirect), NotAList } }
    \cup { NoFields("object") }

OperatorsArguments ==
    { Argument("object", {"operators"}, NotAList, <<>>, 1, List(ops)) :
        ops \in SeqUpTo(OpKinds, MaxOps) }
    \cup { NoFields("object"),
           Argument("object", {"operators"}, NotAList, <<>>, 1, NotAList) }

ScriptArguments(script) ==
    { NoFields("absent"), NoFields("garbage"), NoFields("nonobject") }
    \cup (IF script \in {"global-anomaly", "anomaly-scan"} THEN RepsArguments
          ELSE IF script = "rg-flow" THEN OperatorsArguments
          ELSE CoeffsArguments)

InitScript ==
    /\ variant \in Scripts
    /\ prec = DEFAULT_PRECISION
    /\ pc = "start"
    /\ req \in ScriptArguments(variant)
    /\ result = NoResult
    /\ tr = NoTrace
    /\ stdout = <<>>
    /\ stderr = <<>>
    /\ nread = 0
    /\ calls = <<>>

\* print(json.dumps(obj)), and the process ends with status 0.
PrintsAndExits(obj) ==
    /\ result' = obj
    /\ stdout' = Append(stdout, JsonLine(1))
    /\ pc' = "exit0"
    /\ UNCHANGED <<variant, prec, req, tr, stderr, nread, calls>>

\* The run writes text to standard error (a message or a traceback) and
\* ends with status 1.
FailsOnStderr ==
    /\ stderr' = Append(stderr, TextLine(1))
    /\ pc' = "exit1"
    /\ UNCHANGED <<variant, prec, req, result, tr, stdout, nread, calls>>

\* {"success": false, "error": str(e)}
Failure(err) == [success |-> FALSE, error |-> err]

\* json.loads(sys.argv[1]) and the lookups on its value raise for a
\* command line without argument (IndexError), text that is no JSON
\* (JSONDecodeError), a value that is no object (TypeError).
ArgumentError(arg) ==
    IF arg.kind = "absent" THEN "IndexError"
    ELSE IF arg.kind = "garbage" THEN "JSONDecodeError"
    ELSE IF arg.kind = "nonobject" THEN "TypeError"
    ELSE ""

(***************************************************************************)
(* global-anomaly/worker.py                                                *)
(***************************************************************************)
\* cfg.get("generations", 1)
GenerationsOf(arg) ==
    IF "generations" \in arg.has THEN arg.generations ELSE 1

\* r["group"], and r['chirality'] of an SU2 entry, raise KeyError where
\* the field is missing.
WittenKeyError(reps) ==
    \E i \in DOMAIN reps :
        \/ "group" \notin reps[i].has
        \/ reps[i].group = "SU2" /\ "chirality" \notin reps[i].has

\* A count of the SU2 entries that does not look at their chirality.
DoubletsAnyChirality(reps, n_gen, chirality) ==
    n_gen * Cardinality({ i \in DOMAIN reps : reps[i].group = "SU2" })

\* counts["SU2_" + chirality] after the loop.
Doublets(reps, n_gen, chirality) ==
    n_gen * Cardinality({ i \in DOMAIN reps :
                            /\ reps[i].group = "SU2"
                            /\ reps[i].chirality = chirality })

WittenVerdict(reps, n_gen) ==
    [success |-> TRUE,
     passed |-> /\ Doublets(reps, n_gen, "L") % 2 = 0
                /\ Doublets(reps, n_gen, "R") % 2 = 0,
     doublets_L |-> Doublets(reps, n_gen, "L"),
     doublets_R |-> Doublets(reps, n_gen, "R"),
     even_L |-> Doublets(reps, n_gen, "L") % 2 = 0,
     even_R |-> Doublets(reps, n_gen, "R") % 2 = 0,
     SU3_pi7 |-> TRUE,
     fermion_count |-> n_gen * Len(reps)]

GlobalAnomalyOutput(arg) ==
    IF ArgumentError(arg) # "" THEN Failure(ArgumentError(arg))
    ELSE IF "reps" \notin arg.has THEN Failure("KeyError")
    ELSE IF WittenKeyError(arg.reps) THEN Failure("KeyError")
    ELSE WittenVerdict(arg.reps, GenerationsOf(arg))

GlobalAnomaly ==
    /\ pc = "start"
    /\ variant = "global-anomaly"
    /\ PrintsAndExits(GlobalAnomalyOutput(req))

(***************************************************************************)
(* anomaly-scan/worker.py                                                  *)
(*                                                                         *)
(* The traces are sums of small multiples of fixed constants, compared     *)
(* with TOL = 1e-12: a sum is below TOL exactly when it is zero as a       *)
(* rational, so the sums are kept as integers (the Green-Schwarz term      *)
(* K_GS = -1/24 scaled by 24).  The formatted trace strings of the object  *)
(* are not modelled.                                                       *)
(***************************************************************************)
\* traces_one reads all five fields of every entry.
TracesKeyError(reps) ==
    \E i \in DOMAIN reps :
        reps[i].has # {"group", "chirality", "dim", "dynkin", "q_u1"}

Sgn(rep) == IF rep.chirality = "L" THEN 1 ELSE 0 - 1

RECURSIVE SumSeq(_)
SumSeq(w) == IF w = <<>> THEN 0 ELSE w[1] + SumSeq(Tail(w))

\* The sum over the entries of group g ("" for all) of sgn * d * factor.
Trace(reps, g, factor) ==
    SumSeq([i \in DOMAIN reps |->
              IF g = "" \/ reps[i].group = g
              THEN Sgn(reps[i]) * reps[i].dim * factor[i] ELSE 0])

One(reps)     == [i \in DOMAIN reps |-> 1]
Dynkin(reps)  == [i \in DOMAIN reps |-> reps[i].dynkin]
Dynkin2(reps) == [i \in DOMAIN reps |-> reps[i].dynkin * reps[i].dynkin]
Charge2(reps) == [i \in DOMAIN reps |-> reps[i].q_u1 * reps[i].q_u1]
Charge4(reps) == [i \in DOMAIN reps |-> Charge2(reps)[i] * Charge2(reps)[i]]

HasGroup(reps, g) == \E i \in DOMAIN reps : reps[i].group = g

\* all(abs(v) < TOL for v in total.values()), after the counter-term.
Cancelled(reps) ==
    /\ reps # <<>> => Trace(reps, "", One(reps)) = 0
    /\ \A g \in {"SU2", "SU3"} :
           HasGroup(reps, g)
           => /\ Trace(reps, g, One(reps)) = 0
              /\ Trace(reps, g, Dynkin2(reps)) = 0
              /\ Trace(reps, g, Dynkin(reps)) = 0
    /\ HasGroup(reps, "U1")
       => /\ 24 * Trace(reps, "U1", Charge4(reps))
               - Trace(reps, "", One(reps)) = 0
          /\ 23 * Trace(reps, "U1", Charge2(reps)) = 0

AnomalyScanOutput(arg) ==
    IF ArgumentError(arg) # "" THEN Failure(ArgumentError(arg))
    ELSE IF "reps" \notin arg.has THEN Failure("KeyError")
    ELSE IF TracesKeyError(arg.reps) THEN Failure("KeyError")
    ELSE [success |-> TRUE,
          anomalies_cancelled |-> Cancelled(arg.reps),
          fermion_count |-> GenerationsOf(arg) * Len(arg.reps)]

AnomalyScan ==
    /\ pc = "start"
    /\ variant = "anomaly-scan"
    /\ PrintsAndExits(AnomalyScanOutput(req))

(***************************************************************************)
(* gravity-zero/worker.py                                                  *)
(*                                                                         *)
(* The numbers of the solved profile are not modelled: the object written  *)
(* has the keys psi0 and GNewton on every path that reaches the print.     *)
(***************************************************************************)
\* The argument check and the try block of lines 16-22 end the run with
\* status 1; a TypeError (a value that is no object, coefficients that are
\* no list) is not among the caught exceptions and ends it the same way.
GravityZeroRejects(arg) ==
    \/ arg.kind # "object"
    \/ "coeffs" \notin arg.has
    \/ arg.coeffs.k # "list"
    \/ Len(arg.coeffs.items) # 5

GravityZero ==
    /\ pc = "start"
    /\ variant = "gravity-zero"
    /\ IF GravityZeroRejects(req)
       THEN FailsOnStderr
       ELSE PrintsAndExits([psi0 |-> "profile", GNewton |-> "number"])

(***************************************************************************)
(* stability-test/worker.py                                                *)
(*                                                                         *)
(* The lattice simulation is not modelled: passed is either value.         *)
(***************************************************************************)
\* main() has no try block: json.loads, ["coeffs"], coeffs[2] and the
\* arithmetic on m2 raise out of the script.
StabilityTestRaises(arg) ==
    \/ arg.kind # "object"
    \/ "coeffs" \notin arg.has
    \/ arg.coeffs.k # "list"
    \/ Len(arg.coeffs.items) < 3
    \/ ~IsNumeric(arg.coeffs.items[3])

StabilityTest ==
    /\ pc = "start"
    /\ variant = "stability-test"
    /\ IF StabilityTestRaises(req)
       THEN FailsOnStderr
       ELSE \E passed \in BOOLEAN :
                PrintsAndExits([success |-> TRUE, passed |-> passed,
                                energyRatio |-> "number",
                                runtime |-> "number"])

(***************************************************************************)
(* rg-flow/worker.py                                                       *)
(***************************************************************************)
\* payload.get("operators", []) and the dict comprehension raise for a
\* value that is no object and for operators that cannot be iterated.
OperatorsError(arg) ==
    IF ArgumentError(arg) # "" THEN ArgumentError(arg)
    ELSE IF "operators" \in arg.has /\ arg.operators.k # "list"
    THEN "TypeError"
    ELSE ""

OperatorsOf(arg) ==
    IF "operators" \in arg.has THEN arg.operators.items ELSE <<>>

\* raw_ops.get(name, 0.0): the last entry of that name wins.
RECURSIVE RawOp(_, _)
RawOp(ops, name) ==
    IF ops = <<>> THEN Num(0, 0)
    ELSE LET op == ops[Len(ops)]
         IN  IF op.kind = "object" /\ op.has_name /\ op.name = name
             THEN op.raw
             ELSE RawOp(SubSeq(ops, 1, Len(ops) - 1), name)

\* mp.mpf(x) raises TypeError for None and ValueError for text that is no
\* number.
MpfRaises(raw) == raw.k \in {"null", "str"}

\* 16 * PI**2
SixteenPiSquared ==
    Mul(FloatDigits, Dec(16, 0), Mul(FloatDigits, PI, PI))

beta_phi4(lam) ==
    Div(FloatDigits, Mul(FloatDigits, Dec(3, 0), Mul(FloatDigits, lam, lam)),
        SixteenPiSquared)

beta_R2(a2) ==
    Div(FloatDigits, Mul(FloatDigits, Dec(0 - 5, 0), Mul(FloatDigits, a2, a2)),
        Mul(FloatDigits, Dec(96, 0), Mul(FloatDigits, PI, PI)))

beta_phi2R(g, lam) ==
    Div(FloatDigits, Mul(FloatDigits, g, lam), SixteenPiSquared)

Betas(lam, a2, g) ==
    [success |-> TRUE,
     beta |-> <<Float(beta_phi4(lam)), Float(beta_R2(a2)),
                Float(beta_phi2R(g, lam))>>,
     precision |-> "50 decimal places"]

\* bail(msg): the error object, exit status 0.
bail(msg) == PrintsAndExits(Failure(msg))

\* The conversions of lines 70-72, outside every try block.
RgFlowConverts(ops) ==
    IF \E name \in {"phi4", "R2", "phi2R"} : MpfRaises(RawOp(ops, name))
    THEN FailsOnStderr
    ELSE PrintsAndExits(Betas(ToDecimal(RawOp(ops, "phi4")),
                              ToDecimal(RawOp(ops, "R2")),
                              ToDecimal(RawOp(ops, "phi2R"))))

RgFlow ==
    /\ pc = "start"
    /\ variant = "rg-flow"
    /\ IF OperatorsError(req) # ""
       THEN bail(OperatorsError(req))
       ELSE RgFlowConverts(OperatorsOf(req))

ScriptNext ==
    \/ GlobalAnomaly
    \/ AnomalyScan
    \/ GravityZero
    \/ StabilityTest
    \/ RgFlow

ScriptSpec == InitScript /\ [][ScriptNext]_vars

(***************************************************************************)
(* The penalty terms of the fitness as functions of their inputs           *)
(*                                                                         *)
(* struct_penalty of the direct variant and the Lorentz isotropy penalty   *)
(* of the VEV variant, applied to inputs of a bounded set under each of    *)
(* the three precisions: req holds the input, result the value computed.   *)
(***************************************************************************)
Input(fn, x, y) == [fn |-> fn, x |-> x, y |-> y]

\* coeffs[2] and coeffs[3], around the soft bounds 0.5 and 0.25.
StructC2 ==
    { Dec(c, 0 - 2) : c \in {0, 10, 0 - 10, 49, 50, 0 - 50, 51, 60, 0 - 60,
                             70, 0 - 70, 90, 100, 150, 0 - 150, 250} }
StructC3 ==
    { Dec(c, 0 - 2) : c \in {0, 4, 10, 0 - 10, 25, 0 - 25, 26, 35, 0 - 35,
                             45, 125} }

\* c0 and c1 of the isotropy check.
LorentzC0 == { Dec(0 - 1, 0), Dec(1, 0), Dec(0, 0), Dec(0 - 2, 0) }
LorentzC1 == { Dec(1, 0), Dec(0 - 1, 0), Dec(0, 0), Dec(101, 0 - 2),
               Dec(99, 0 - 2), Dec(2, 0) }

\* Deviations on both sides of the tier boundaries 1e-12 and 1e-8.
LorentzDeviations ==
    { Dec(c, e) : c \in {1, 5, 999, 1001}, e \in ((0 - 17)..(0 - 9)) }
    \cup { Zero, Dec(1, 0 - 3), Dec(1, 0) }

PenaltyInputs ==
    { Input("struct", c2, c3) : c2 \in StructC2, c3 \in StructC3 }
    \cup { Input("lorentz", c0, c1) : c0 \in LorentzC0, c1 \in LorentzC1 }
    \cup { Input("tier", lorentz_eps, Zero) : lorentz_eps \in LorentzDeviations }

InitPenalty ==
    /\ variant \in Variants
    /\ prec \in {16, 20, 30}
    /\ pc = "apply"
    /\ req \in PenaltyInputs
    /\ req.fn = "struct" <=> variant = "direct"
    /\ result = NoResult
    /\ tr = NoTrace
    /\ stdout = <<>>
    /\ stderr = <<>>
    /\ nread = 0
    /\ calls = <<>>

Applied(value) ==
    /\ result' = value
    /\ pc' = "applied"
    /\ UNCHANGED <<variant, prec, req, tr, stdout, stderr, nread, calls>>

\* struct_penalty of coeffs[2] = x and coeffs[3] = y.
StructuralPenalty ==
    /\ pc = "apply"
    /\ req.fn = "struct"
    /\ Applied([penalty |-> StructPenalty(WorkDigits(prec), req.x, req.y)])

\* lorentz_eps of c0 = x and c1 = y, and its penalty.
LorentzCheck ==
    /\ pc = "apply"
    /\ req.fn = "lorentz"
    /\ Applied([lorentz_eps |-> LorentzEps(WorkDigits(prec), req.x, req.y),
                penalty |-> LorentzPenalty(WorkDigits(prec),
                               LorentzEps(WorkDigits(prec), req.x, req.y))])

\* The tiers of the penalty at lorentz_eps = x.
LorentzTier ==
    /\ pc = "apply"
    /\ req.fn = "tier"
    /\ Applied([lorentz_eps |-> req.x,
                penalty |-> LorentzPenalty(WorkDigits(prec), req.x)])

PenaltyNext ==
    \/ StructuralPenalty
    \/ LorentzCheck
    \/ LorentzTier

PenaltySpec == InitPenalty /\ [][PenaltyNext]_vars

(***************************************************************************)
(* Properties                                                              *)
(***************************************************************************)
\* The arguments of the call, or the fields of the evaluate line.
IsList(c)     == c.k = "list"
SixNumbers(c) ==
    /\ IsList(c)
    /\ Len(c.items) = 6
    /\ \A i \in 1..6 : c.items[i].k = "num"
IntGeneration == req.generation.k = "int"

\* The sentinel record: fitness 1e9 and the three deviations 1.
IsSentinel(r) ==
    /\ r.fitness = Fin(Dec(1, 9))
    /\ r.delta_c = IntNum(1)
    /\ r.delta_alpha = IntNum(1)
    /\ r.delta_g = IntNum(1)

ZeroObservables(r) ==
    /\ r.c_model = IntNum(0)
    /\ r.alpha_model = IntNum(0)
    /\ r.g_model = IntNum(0)

NonNegative(f) == IF f.k = "inf" THEN f.c > 0 ELSE f.c >= 0

\* C1. Knockout dominance: whenever the call reaches the hard-constraint
\* gate with delta_c above eps_c or delta_g above eps_g, the fitness it
\* returns is the sentinel 1e9, whatever the penalties are; both variants.
C1_KnockoutDominance ==
    (/\ pc = "returned"
     /\ tr.gate
     /\ (Gt(tr.delta_c, tr.eps_c) \/ Gt(tr.delta_g, tr.eps_g)))
    => result.fitness = Fin(Dec(1, 9))

\* A call that reached the gate with only delta_c above its tolerance and
\* a soft penalty pending, and returned the sentinel.
C1_Witness ==
    /\ pc = "returned"
    /\ tr.gate
    /\ Gt(tr.delta_c, tr.eps_c)
    /\ ~Gt(tr.delta_g, tr.eps_g)
    /\ Gt(tr.penalty, Zero)
    /\ result.fitness = Fin(Dec(1, 9))

\* C2. A coefficient list of a length other than 6 (the empty list too),
\* with an integer generation: the call returns a record with fitness 1e9
\* and delta_c = delta_alpha = delta_g = 1; both variants.
C2_WrongLengthRejected ==
    (/\ pc # "call"
     /\ IsList(req.coefficients)
     /\ Len(req.coefficients.items) # 6
     /\ IntGeneration)
    => (pc = "returned" /\ IsSentinel(result))

\* The VEV variant has answered the empty list with the sentinel record.
C2_Witness ==
    /\ pc = "returned"
    /\ variant = "vev"
    /\ req.coefficients = List(<<>>)
    /\ IsSentinel(result)

\* C3. Six coefficients with c0 = 0, at any generation: the call returns
\* fitness 1e9 and the three deviations 1; both variants.
C3_ZeroC0Sentinel ==
    (/\ pc # "call"
     /\ SixNumbers(req.coefficients)
     /\ req.coefficients.items[1].c = 0
     /\ IntGeneration)
    => (pc = "returned" /\ IsSentinel(result))

\* An input line that carries a bad candidate.
BadRequest(line) ==
    \/ line.kind = "garbage"
    \/ /\ line.kind = "object"
       /\ line.command = "evaluate"
       /\ \/ ~line.has_coefficients
          \/ ~line.has_generation
          \/ ~IsList(line.coefficients)
          \/ line.generation.k # "int"

\* C4. After an input line that carries a bad candidate (an evaluate
\* command without 'coefficients' or 'generation', with coefficients that
\* are no list, with a generation that is no integer, or text that is no
\* JSON), the worker is still running, ready for the next line.
C4_SurvivesBadRequest ==
    (nread > 0 /\ BadRequest(req)) => pc # "crashed"

\* C5. Every line written to standard output is one JSON object, the
\* exception path of evaluate included.
C5_StdoutIsJson ==
    \A i \in 1..Len(stdout) : stdout[i].kind = "json"

\* An evaluate request that is structurally invalid: a field is missing,
\* or the coefficients are a list of the wrong length or with an entry
\* that is no number. Its generation, where present, is an integer.
StructurallyInvalid(line) ==
    /\ line.kind = "object"
    /\ line.command = "evaluate"
    /\ line.has_generation => line.generation.k = "int"
    /\ \/ ~line.has_coefficients
       \/ ~line.has_generation
       \/ /\ IsList(line.coefficients)
          /\ ~SixNumbers(line.coefficients)

\* C6. A structurally invalid evaluate request is answered on standard
\* output with a sentinel record (fitness 1e9, deviations 1); the loop does
\* not exit and the answer is not left to standard error.
C6_InvalidRequestAnswered ==
    (nread > 0 /\ StructurallyInvalid(req))
    => (/\ pc # "crashed"
        /\ \E i \in 1..Len(stdout) : stdout[i] = JsonLine(nread)
        /\ IsSentinel(result))

\* C7. evaluate_chromosome_high_precision never raises, whatever its
\* arguments: a fault becomes a returned record with fitness 1e9 and an
\* 'error' annotation.
C7_NeverRaises ==
    /\ pc # "raised"
    /\ (pc = "returned" /\ ~(SixNumbers(req.coefficients) /\ IntGeneration))
       => (result.fitness = Fin(Dec(1, 9)) /\ "error" \in DOMAIN result)

\* C8. In every response of evaluate the fitness is finite (the sentinel
\* or another real number), never infinite, and the three deviations are
\* not negative.
C8_FitnessFinite ==
    pc = "returned"
    => (/\ result.fitness.k = "fin"
        /\ NonNegative(result.delta_c)
        /\ NonNegative(result.delta_alpha)
        /\ NonNegative(result.delta_g))

\* C9. Six coefficients with c0 not degenerate and c1 = 0 (a dispersion
\* ratio of 0), at any generation: the call returns fitness 1e9, zeroed
\* observables and the three deviations 1; both variants.
C9_ZeroRatioSentinel ==
    (/\ pc # "call"
     /\ SixNumbers(req.coefficients)
     /\ req.coefficients.items[1].c # 0
     /\ req.coefficients.items[2].c = 0
     /\ IntGeneration)
    => (pc = "returned" /\ IsSentinel(result) /\ ZeroObservables(result))

\* C10. For every generation below 10, the negative ones too, the gate
\* reads the warmup tolerances eps_c = 0.01 and eps_g = 0.1; both variants.
C10_WarmupTolerances ==
    (pc = "returned" /\ tr.gate /\ req.generation.v < 10)
    => (tr.eps_c = Dec(1, 0 - 2) /\ tr.eps_g = Dec(1, 0 - 1))

\* A call at a negative generation reached the gate with the warmup pair.
C10_Witness ==
    /\ pc = "returned"
    /\ tr.gate
    /\ req.generation.v < 0
    /\ tr.eps_c = Dec(1, 0 - 2)
    /\ tr.eps_g = Dec(1, 0 - 1)

\* The generation of a call that reached the gate, with g in lo..hi.
GateAt(lo, hi) ==
    /\ pc = "returned"
    /\ tr.gate
    /\ req.generation.v >= lo
    /\ req.generation.v <= hi

\* The generations of the calls, as numbers.
Generations == { g.v : g \in EvalGenerations }

\* C11. The tolerance pair the gate reads at generation 10 differs from
\* the pair scheduled for generation 9.
C11_BoundaryDiffers ==
    GateAt(10, 10)
    => <<tr.eps_c, tr.eps_g>> # <<Scheduled(9).eps_c, Scheduled(9).eps_g>>

\* C12. On the ramp (generations 10 to 99) the tolerances do not increase
\* with the generation, lie between the final pair (1e-6, 1e-4) and the
\* warmup pair (0.01, 0.1), and are not below the pair of generation 100.
C12_RampNonIncreasing ==
    GateAt(10, 99)
    => (/\ \A g1 \in 10..req.generation.v :
              /\ Le(tr.eps_c, Scheduled(g1).eps_c)
              /\ Le(tr.eps_g, Scheduled(g1).eps_g)
        /\ Le(Dec(1, 0 - 6), tr.eps_c) /\ Le(tr.eps_c, Dec(1, 0 - 2))
        /\ Le(Dec(1, 0 - 4), tr.eps_g) /\ Le(tr.eps_g, Dec(1, 0 - 1))
        /\ Le(Scheduled(100).eps_c, tr.eps_c)
        /\ Le(Scheduled(100).eps_g, tr.eps_g))

\* A call at generation 99 read tolerances strictly inside the two pairs
\* and strictly below those of generation 11.
C12_Witness ==
    /\ GateAt(99, 99)
    /\ Lt(Dec(1, 0 - 6), tr.eps_c) /\ Lt(tr.eps_c, Scheduled(11).eps_c)
    /\ Lt(Dec(1, 0 - 4), tr.eps_g) /\ Lt(tr.eps_g, Scheduled(11).eps_g)

\* min(10000 + (g - 500), 20000): the relaxation multiplier in units of 1e-4.
Multiplier(g) == IF g - 500 < 10000 THEN 10000 + (g - 500) ELSE 20000

\* C13. From generation 100 to 500 the tolerances are (1e-6, 1e-4); beyond
\* 500 they are that pair times min(1 + (generation - 500) * 0.0001, 2):
\* they do not decrease with the generation and never exceed twice the pair.
C13_FinalRegime ==
    GateAt(100, 20000)
    => (/\ req.generation.v <= 500
           => (tr.eps_c = Dec(1, 0 - 6) /\ tr.eps_g = Dec(1, 0 - 4))
        /\ req.generation.v > 500
           => (/\ tr.eps_c = Dec(Multiplier(req.generation.v), 0 - 10)
               /\ tr.eps_g = Dec(Multiplier(req.generation.v), 0 - 8))
        /\ \A g1 \in Generations :
              (100 <= g1 /\ g1 <= req.generation.v)
              => (/\ Le(Scheduled(g1).eps_c, tr.eps_c)
                  /\ Le(Scheduled(g1).eps_g, tr.eps_g))
        /\ Le(tr.eps_c, Dec(2, 0 - 6))
        /\ Le(tr.eps_g, Dec(2, 0 - 4)))

\* A call far beyond the marker read exactly twice the final pair.
C13_Witness ==
    /\ GateAt(10501, 20000)
    /\ tr.eps_c = Dec(2, 0 - 6)
    /\ tr.eps_g = Dec(2, 0 - 4)

\* C14. After a call with an integer generation g the context precision is
\* 16 for g < 500, 20 for 500 <= g < 1000 and 30 for g >= 1000, whatever
\* it was before the call.
C14_PrecisionTiers ==
    (pc \in {"returned", "raised"} /\ IntGeneration)
    => prec = (IF req.generation.v < 500 THEN 16
               ELSE IF req.generation.v < 1000 THEN 20 ELSE 30)

\* A call at generation 500 has left 20 digits in the context.
C14_Witness ==
    /\ pc = "returned"
    /\ IntGeneration
    /\ req.generation.v = 500
    /\ prec = 20

\* The tier of the generation of the last evaluate request that was
\* processed; the tier the module is loaded with if there was none.
LastTier ==
    IF calls = <<>> THEN 16
    ELSE LET g == calls[Len(calls)].generation.v
         IN  IF g < 500 THEN 16 ELSE IF g < 1000 THEN 20 ELSE 30

Repeated(i, j) ==
    /\ i < j
    /\ calls[i].coefficients = calls[j].coefficients
    /\ calls[i].generation = calls[j].generation
    /\ \A k \in i..j : calls[k].generation = calls[i].generation

\* C16. Determinism: two calls with the same coefficients and the same
\* generation, with no call at another generation between them, return
\* records equal in every field.
C16_Determinism ==
    \A i, j \in 1..Len(calls) :
        Repeated(i, j) => calls[i].result = calls[j].result

\* Two calls at generation 1000 with the same accepted candidate have
\* returned the same record.
C16_Witness ==
    /\ Len(calls) = 2
    /\ Repeated(1, 2)
    /\ calls[1].generation = Gen(1000)
    /\ "precision_mode" \in DOMAIN calls[2].result
    /\ calls[1].result = calls[2].result

\* The lines on standard output written for input line n.
ResponsesTo(n) == { i \in 1..Len(stdout) : stdout[i].n = n }

\* C17. Every request line that was processed, one with an absent or
\* unknown command included, has exactly one line on standard output, and
\* it is written before the next line is read.
C17_OneResponsePerRequest ==
    (pc = "loop" /\ nread > 0 /\ req.kind # "blank")
    => Cardinality(ResponsesTo(nread)) = 1

\* C18. The read loop is left only at the end of the input or by an
\* interrupt: whatever the lines read so far held, main() is waiting for
\* the next line, or has seen the end of the input, or was interrupted.
C18_LoopEndsOnlyAtEof ==
    pc \in {"loop", "eof", "interrupted"}

\* The step that processes a line with the given command.
Processes(command) ==
    /\ nread' = nread + 1
    /\ req'.kind = "object"
    /\ req'.command = command

\* C19. Processing ping or test_precision leaves the precision context as
\* it was; ping answers status 'ready', the current precision and the
\* mode; test_precision answers the same test_value and precision_digits
\* whatever was evaluated before.
C19_ReadOnlyCommands ==
    [][/\ Processes("ping")
          => /\ prec' = prec
             /\ result' = [status |-> "ready", precision |-> prec,
                           mode |-> "high_precision_decimal"]
       /\ Processes("test_precision")
          => /\ prec' = prec
             /\ result'.test_value = "0.007297352566411018123456789"
             /\ result'.precision_digits = 28
             /\ result'.context_precision = prec]_vars

\* A ping was answered under the precision 30 that an evaluate request at
\* generation 1000 had left.
C19_Witness ==
    /\ pc = "loop"
    /\ req.command = "ping"
    /\ prec = 30
    /\ result = [status |-> "ready", precision |-> 30,
                 mode |-> "high_precision_decimal"]
    /\ Len(calls) = 1

\* c0 and c1 are not zero and have the same sign: c_squared < 0.
NegativeRatio ==
    /\ SixNumbers(req.coefficients)
    /\ req.coefficients.items[1].c * req.coefficients.items[2].c > 0

\* The penalties pending at the gate for a negative ratio: the soft
\* penalty 5, and in the VEV variant 10 more without a real VEV.
PendingPenalty ==
    IF variant = "vev"
       /\ ~RealVev(ToDecimal(req.coefficients.items[3]),
                   ToDecimal(req.coefficients.items[4]))
    THEN Dec(15, 0) ELSE Dec(5, 0)

\* C20. A negative dispersion ratio does not abort the evaluation: the
\* call goes on to the gate with the soft penalty 5 added once, and a
\* candidate that passes the gate has that penalty in its fitness.
C20_NegativeRatioContinues ==
    (/\ pc # "call"
     /\ NegativeRatio
     /\ IntGeneration
     /\ "error" \notin DOMAIN result)
    => (/\ pc = "returned"
        /\ tr.gate
        /\ tr.penalty = PendingPenalty
        /\ "precision_mode" \in DOMAIN result
           => \/ result.fitness.k = "inf"
              \/ result.delta_alpha.k = "fin"
                 /\ Ge(AsDec(result.fitness),
                       Add(6, AsDec(result.delta_alpha), Dec(5, 0))))

\* A candidate of the direct variant with c0 = c1 = 1 passed the gate with
\* the penalty pending and a fitness that is not the sentinel.
C20_Witness ==
    /\ pc = "returned"
    /\ variant = "direct"
    /\ NegativeRatio
    /\ tr.gate
    /\ tr.penalty = Dec(5, 0)
    /\ "precision_mode" \in DOMAIN result
    /\ result.fitness.k = "fin"
    /\ Lt(AsDec(result.fitness), Dec(10, 0))

\* Coefficients with c1 = -c0 and c4 = -(4 pi alpha).
RatioOneTargetAlpha ==
    /\ SixNumbers(req.coefficients)
    /\ req.coefficients.items[1].c # 0
    /\ ToDecimal(req.coefficients.items[2])
       = NegP(WorkDigits(30), ToDecimal(req.coefficients.items[1]))
    /\ req.coefficients.items[5] = DebugC4

\* |x - target| / target <= bound, for a number x of a response.
Within(x, target, bound) ==
    /\ x.k = "fin"
    /\ Le(RelDev(WorkDigits(30), AsDec(x), target), bound)

\* C21. Direct variant, generation 0: for coefficients with c1 = -c0 and
\* c4 = -(4 pi alpha), the debug vector among them, the response reports
\* c_model within 1e-9 of the target speed and alpha_model equal to the
\* target coupling up to the working precision.
C21_DebugVector ==
    (/\ pc = "returned"
     /\ variant = "direct"
     /\ req.generation = Gen(0)
     /\ RatioOneTargetAlpha)
    => (/\ Within(result.c_model, C_TARGET_DEC, Dec(1, 0 - 9))
        /\ Within(result.alpha_model, ALPHA_TARGET_DEC,
                  Dec(1, 1 - WorkDigits(PrecisionTier(0)))))

\* A run of a script has ended.
Ended == pc \in {"exit0", "exit1"}

\* C22. Every run of a computation script, whatever its command line,
\* writes exactly one JSON object to standard output; the object has a
\* boolean 'success', and on failure success is false and 'error' is text.
C22_OneJsonWithSuccess ==
    Ended
    => (/\ Len(stdout) = 1
        /\ stdout[1].kind = "json"
        /\ "success" \in DOMAIN result
        /\ result.success \in BOOLEAN
        /\ (pc = "exit1" \/ ~result.success)
           => (~result.success /\ "error" \in DOMAIN result))

\* C23. The rg-flow script ends with exit status 0 on every command line,
\* and on a problem the object it writes is {success: false, error}.
C23_RgFlowExitsZero ==
    (variant = "rg-flow" /\ Ended)
    => (/\ pc = "exit0"
        /\ Len(stdout) = 1
        /\ "success" \in DOMAIN result
        /\ ~result.success => "error" \in DOMAIN result)

\* The SU2 entries of a chirality, counted from the request.
SU2Count(chirality) ==
    Cardinality({ i \in DOMAIN req.reps :
                    /\ req.reps[i].group = "SU2"
                    /\ req.reps[i].chirality = chirality })

\* The verdict the global-anomaly script owes for n_gen generations.
VerdictFor(n_gen) ==
    /\ result.success
    /\ result.passed <=> \A ch \in {"L", "R"} : (SU2Count(ch) * n_gen) % 2 = 0
    /\ result.fermion_count = n_gen * Len(req.reps)

\* A field the verdict needs is missing: the argument or its 'reps', the
\* 'group' of an entry, the 'chirality' of an SU2 entry.
NeededFieldMissing ==
    \/ req.kind # "object"
    \/ "reps" \notin req.has
    \/ \E i \in DOMAIN req.reps :
           \/ "group" \notin req.reps[i].has
           \/ req.reps[i].group = "SU2" /\ "chirality" \notin req.reps[i].has

\* Any field is missing: a needed one, 'generations', or the 'chirality'
\* of any entry.
AnyFieldMissing ==
    \/ NeededFieldMissing
    \/ "generations" \notin req.has
    \/ \E i \in DOMAIN req.reps : "chirality" \notin req.reps[i].has

\* C27, as claimed. The global-anomaly script answers {success: false,
\* error} when any field is missing, and otherwise passed = true exactly
\* when the SU2 entries of each chirality times the generations are even,
\* with fermion_count = generations * number of entries.
C27_AnyMissingFieldFails ==
    (variant = "global-anomaly" /\ Ended)
    => IF AnyFieldMissing
       THEN ~result.success /\ "error" \in DOMAIN result
       ELSE VerdictFor(req.generations)

\* C27, amended. The same with the missing fields that fail being the
\* needed ones: a missing 'generations' counts as 1 generation, and the
\* chirality of an entry that is not SU2 is never read.
C27_WittenVerdict ==
    (variant = "global-anomaly" /\ Ended)
    => (/\ pc = "exit0"
        /\ Len(stdout) = 1
        /\ IF NeededFieldMissing
           THEN ~result.success /\ "error" \in DOMAIN result
           ELSE VerdictFor(IF "generations" \in req.has
                           THEN req.generations ELSE 1))

\* One left and one right SU2 entry, an SU3 entry, one generation: the
\* total is even, each chirality is odd, and the verdict is passed = false.
C27_Witness ==
    /\ variant = "global-anomaly"
    /\ pc = "exit0"
    /\ ~NeededFieldMissing
    /\ Len(req.reps) = 3
    /\ SU2Count("L") = 1
    /\ SU2Count("R") = 1
    /\ "generations" \in req.has /\ req.generations = 1
    /\ result.success
    /\ ~result.passed
    /\ result.fermion_count = 3

\* abs(c) - bound, the excess of a coefficient above its soft bound.
Excess(c, bound) == Sub(WorkDigits(30), Abs(c), bound)

\* The coefficient with half the excess of c above the bound.
HalfExcess(c, bound) ==
    Add(WorkDigits(30), bound,
        Mul(WorkDigits(30), Dec(5, 0 - 1), Excess(c, bound)))

\* StructPenalty at the inputs of the state with factor times the penalty
\* of half the excess of one coefficient, the other one within its bound.
ScalesBy(factor) ==
    /\ (Gt(Abs(req.x), Dec(5, 0 - 1)) /\ Le(Abs(req.y), Dec(25, 0 - 2)))
       => result.penalty
          = Mul(WorkDigits(30), Dec(factor, 0),
                StructPenalty(WorkDigits(prec),
                              HalfExcess(req.x, Dec(5, 0 - 1)), req.y))
    /\ (Le(Abs(req.x), Dec(5, 0 - 1)) /\ Gt(Abs(req.y), Dec(25, 0 - 2)))
       => result.penalty
          = Mul(WorkDigits(30), Dec(factor, 0),
                StructPenalty(WorkDigits(prec), req.x,
                              HalfExcess(req.y, Dec(25, 0 - 2))))

\* C24. The structural penalty of the direct variant is zero when
\* |c2| <= 0.5 and |c3| <= 0.25, and above a bound it grows as the square
\* of the excess: twice the excess of one coefficient, 4 times the penalty.
C24_QuadraticExcess ==
    (pc = "applied" /\ req.fn = "struct")
    => (/\ (Le(Abs(req.x), Dec(5, 0 - 1)) /\ Le(Abs(req.y), Dec(25, 0 - 2)))
           => result.penalty = Zero
        /\ ScalesBy(4))

\* C24, as the code has it. The structural penalty of the direct variant
\* is zero when |c2| <= 0.5 and |c3| <= 0.25, is continuous (never more
\* than 0.2 and 0.1 times the distances of |c2| and |c3| from the bounds)
\* and grows linearly in the excess: twice the excess of one coefficient,
\* twice the penalty.
C24_LinearExcess ==
    (pc = "applied" /\ req.fn = "struct")
    => (/\ (Le(Abs(req.x), Dec(5, 0 - 1)) /\ Le(Abs(req.y), Dec(25, 0 - 2)))
           => result.penalty = Zero
        /\ Ge(result.penalty, Zero)
        /\ Le(result.penalty,
              Add(WorkDigits(30),
                  Mul(WorkDigits(30), Dec(2, 0 - 1),
                      Abs(Excess(req.x, Dec(5, 0 - 1)))),
                  Mul(WorkDigits(30), Dec(1, 0 - 1),
                      Abs(Excess(req.y, Dec(25, 0 - 2))))))
        /\ ScalesBy(2))

\* |c2| = 0.7 is 0.2 above its bound and costs 0.04.
C24_Witness ==
    /\ pc = "applied"
    /\ req.fn = "struct"
    /\ req.x = Dec(0 - 7, 0 - 1)
    /\ req.y = Dec(1, 0 - 1)
    /\ result.penalty = Dec(4, 0 - 2)

\* The penalty owed for a deviation, tier by tier.
TierOf(lorentz_eps) ==
    IF Lt(lorentz_eps, Dec(1, 0 - 12)) THEN 0
    ELSE IF Lt(lorentz_eps, Dec(1, 0 - 8)) THEN 10 ELSE 100

\* C26. The Lorentz penalty of the VEV variant is 0 for a deviation below
\* 1e-12, 10 times the deviation below 1e-8 and 100 times it otherwise;
\* the deviation is 1 when -c0 <= 0 or c1 <= 0; a larger deviation never
\* has a smaller penalty, across both tier boundaries.
C26_LorentzTiers ==
    (pc = "applied" /\ req.fn \in {"lorentz", "tier"})
    => (/\ result.penalty
           = Mul(WorkDigits(prec), Dec(TierOf(result.lorentz_eps), 0),
                 result.lorentz_eps)
        /\ (req.fn = "lorentz" /\ (Ge(req.x, Zero) \/ Le(req.y, Zero)))
           => result.lorentz_eps = Dec(1, 0)
        /\ \A smaller \in LorentzDeviations :
               Le(smaller, result.lorentz_eps)
               => Le(LorentzPenalty(WorkDigits(prec), smaller),
                     result.penalty))

\* A deviation of the linear tier, just below its upper boundary, has 10
\* times the deviation as its penalty.
C26_Witness ==
    /\ pc = "applied"
    /\ req.fn = "tier"
    /\ result.lorentz_eps = Dec(999, 0 - 11)
    /\ result.penalty = Dec(999, 0 - 10)

\* The variant of the other worker file.
Other(v) == IF v = "direct" THEN "vev" ELSE "direct"

\* The worker has handled an evaluate request that has both fields.
HandledEvaluate ==
    /\ pc \in {"loop", "crashed"}
    /\ nread > 0
    /\ req.kind = "object"
    /\ req.command = "evaluate"
    /\ req.has_coefficients
    /\ req.has_generation

\* C25. The two workers are the same machine outside the scoring formulas:
\* on the same evaluate request the other variant sets the same precision
\* and reads the same tolerance pair at its gate, the gate rejects exactly
\* when delta_c > eps_c or delta_g > eps_g, a ping or test_precision
\* response names no variant and reports the tier of the last generation,
\* and the other variant answers later requests exactly when this one
\* does (it leaves its loop on the same requests).
C25_SameMachine ==
    /\ HandledEvaluate
       => /\ EvaluateChromosome(Other(variant), req.coefficients,
                                req.generation, prec).prec = prec
          /\ (/\ tr.gate
              /\ EvaluateChromosome(Other(variant), req.coefficients,
                                    req.generation, prec).tr.gate)
             => /\ EvaluateChromosome(Other(variant), req.coefficients,
                                      req.generation, prec).tr.eps_c = tr.eps_c
                /\ EvaluateChromosome(Other(variant), req.coefficients,
                                      req.generation, prec).tr.eps_g = tr.eps_g
          /\ (tr.gate /\ pc = "loop")
             => (IsSentinel(result)
                 <=> (Gt(tr.delta_c, tr.eps_c) \/ Gt(tr.delta_g, tr.eps_g)))
          /\ EvaluateChromosome(Other(variant), req.coefficients,
                                req.generation, prec).escaped
             <=> pc = "crashed"
    /\ (pc = "loop" /\ req.command = "ping")
       => result = [status |-> "ready", precision |-> LastTier,
                    mode |-> "high_precision_decimal"]
    /\ (pc = "loop" /\ req.command = "test_precision")
       => result = [test_value |-> "0.007297352566411018123456789",
                    precision_digits |-> 28, context_precision |-> LastTier]

\* The outcome of the request on a worker that has handled nothing yet.
Fresh(coefficients, generation) ==
    EvaluateChromosome(variant, coefficients, generation, DEFAULT_PRECISION)

\* C28. An evaluate response is a function of (coefficients, generation)
\* only: whatever evaluates, pings and self-tests came before it, the
\* record returned is the one a worker that has handled nothing returns
\* for the request, and the request ends the loop only if it does so there.
C28_HistoryIndependent ==
    HandledEvaluate
    => LET fresh == Fresh(req.coefficients, req.generation)
       IN  IF pc = "crashed" THEN fresh.escaped
           ELSE /\ ~fresh.escaped
                /\ calls[Len(calls)].coefficients = req.coefficients
                /\ calls[Len(calls)].generation = req.generation
                /\ calls[Len(calls)].result = fresh.result
                /\ result = fresh.result

\* The same candidate accepted at generation 1000 and then at generation
\* 0, with records that differ: the second one owes nothing to the first.
C28_Witness ==
    /\ Len(calls) = 2
    /\ calls[1].coefficients = calls[2].coefficients
    /\ calls[1].generation = Gen(1000)
    /\ calls[2].generation = Gen(0)
    /\ "precision_mode" \in DOMAIN calls[1].result
    /\ "precision_mode" \in DOMAIN calls[2].result
    /\ calls[1].result # calls[2].result

\* A float of a record is at least, or at most, a decimal number.
AtLeast(f, d) == IF f.k = "inf" THEN f.c > 0 ELSE Ge(AsDec(f), d)
AtMost(f, d) == IF f.k = "inf" THEN f.c < 0 ELSE Le(AsDec(f), d)

\* The call returned the record of a candidate that passed the gate.
Accepted ==
    /\ pc = "returned"
    /\ "precision_mode" \in DOMAIN result
    /\ "error" \notin DOMAIN result

\* C29. In the VEV variant the elegance score lies in [0, 0.9], from a c3
\* term in [0, 0.5], a coupling term in [0, 0.3] and a relation term in
\* {0, 0.05, 0.1} (the weights 0.5, 0.3, 0.2 on parts in [0, 1], [0, 1] and
\* {0, 0.25, 0.5}), so an accepted fitness is at least -0.09; in the
\* direct variant an accepted fitness is at least 0.
C29_FitnessLowerBounds ==
    /\ (pc = "returned" /\ "elegance_score" \in DOMAIN result)
       => /\ AtLeast(result.elegance_score, Zero)
          /\ AtMost(result.elegance_score, Dec(9, 0 - 1))
    /\ (Accepted /\ variant = "vev")
       => /\ AtLeast(result.elegance_details.c3_elegance, Zero)
          /\ AtMost(result.elegance_details.c3_elegance, Dec(1, 0))
          /\ AtLeast(result.elegance_details.coupling_simplicity, Zero)
          /\ AtMost(result.elegance_details.coupling_simplicity, Dec(1, 0))
          /\ result.elegance_details.relation_bonus
             \in { IntNum(0), Fin(Dec(25, 0 - 2)), Fin(Dec(5, 0 - 1)) }
          /\ AtLeast(result.fitness, Dec(0 - 9, 0 - 2))
    /\ (Accepted /\ variant = "direct") => AtLeast(result.fitness, Zero)

\* An accepted VEV candidate with a negative fitness: the elegance bonus
\* exceeds its deviation of alpha.
C29_Witness ==
    /\ Accepted
    /\ variant = "vev"
    /\ ~AtLeast(result.fitness, Zero)
    /\ AtLeast(result.elegance_score, Dec(5, 0 - 1))

\* The VEV evaluator returned a record other than the knockout record.
VevNotRejected ==
    /\ pc = "returned"
    /\ variant = "vev"
    /\ "fitness" \in DOMAIN result
    /\ ~IsSentinel(result)

\* c0 < 0 and c1 > 0 in the request of the state.
GhostFree ==
    /\ Lt(AsDec(req.coefficients.items[1]), Zero)
    /\ Gt(AsDec(req.coefficients.items[2]), Zero)

\* C30. In the VEV variant a candidate that is not rejected and is not
\* ghost-free (not both c0 < 0 and c1 > 0) has a Lorentz deviation of
\* exactly 1 with the penalty 100, and with the ghost penalty 1 and an
\* elegance bonus of 0.09 at most a fitness of at least 100.9 (the sum
\* rounded to 4 digits); a fitness below 100 of a candidate not rejected
\* implies c0 < 0 and c1 > 0.
C30_GhostsCostAHundred ==
    /\ (VevNotRejected /\ ~GhostFree)
       => /\ LorentzEps(WorkDigits(prec), AsDec(req.coefficients.items[1]),
                        AsDec(req.coefficients.items[2])) = Dec(1, 0)
          /\ LorentzPenalty(WorkDigits(prec), Dec(1, 0)) = Dec(100, 0)
          /\ AtLeast(result.fitness, Dec(1009, 0 - 1))
    /\ (VevNotRejected /\ ~AtLeast(result.fitness, Dec(100, 0))) => GhostFree

\* c0 = 1 and c1 = -1 pass the speed gate (the ratio is 1) and are scored:
\* the fitness is 100 and more, and below 101.
C30_Witness ==
    /\ VevNotRejected
    /\ Accepted
    /\ req.coefficients.items[1] = Num(1, 0)
    /\ req.coefficients.items[2] = Num(0 - 1, 0)
    /\ AtLeast(result.fitness, Dec(100, 0))
    /\ AtMost(result.fitness, Dec(101, 0))

=============================================================================
